---- MODULE Spec2Model ----
(***************************************************************************)
(* LitGap: the citation fetcher of src/modules/api.js (API.fetchCitations, *)
(* API._fetchPaperByDOIWithRetry, API._fetchPaperByDOI) as a state machine.*)
(* One logical flow of control (an async function); the HTTP service is    *)
(* the environment, which answers every outstanding request with one of    *)
(* the outcomes the code distinguishes.                                    *)
(***************************************************************************)
EXTENDS Integers, Sequences, FiniteSets, TLC

VARIABLES
    papers,        \* argument of fetchCitations: sequence of paper objects
    pc,            \* position of the async flow
    i,             \* loop index of fetchCitations (0-based, as in the code)
    attempt,       \* parameter `attempt` of _fetchPaperByDOIWithRetry
    ret,           \* value _fetchPaperByDOI resolved to
    result,        \* value _fetchPaperByDOIWithRetry resolved to (api.js:72)
    stats,         \* API.stats
    allCitations,  \* local allCitations of fetchCitations
    userPaperIds,  \* local userPaperIds (a Set, kept in insertion order)
    progress,      \* calls received by progressCallback, in order
    inflight,      \* HTTP requests outstanding, by 0-based source index
    output,        \* value fetchCitations resolved to
    \* history of the run (observations, never read by the code)
    waited,        \* ms slept since the last request completed
    lastGap,       \* value of `waited` when the latest request was issued
    reqCount,      \* requests issued per source
    backoffs,      \* backoff waits of the current source, in order
    rets,          \* values _fetchPaperByDOI resolved to for the current source
    lastOutcome,   \* what the service did with the latest request
    delivered,     \* citation records handed over in usable 200 responses
    exhausted,     \* sources whose every attempt was rate limited
    \* LitGapMain.run (parser.js:304-464)
    collection,    \* the papers parsed from the collection
    runOutcome,    \* what the run reported to its caller
    now,           \* new Date().getFullYear()
    \* Analyzer.findGaps as a function (parser.js:776-853)
    gData,         \* argument citationData
    gOpts,         \* argument options
    gSorted,       \* local recommendations after the sort, before marking
    gFull,         \* local recommendations after sorting and marking
    gOut,          \* value returned
    gpc,           \* "in" before the call, "out" after it
    \* Analyzer._calculateScore as a function (parser.js:863-904)
    sCit,          \* argument citation
    sScore,        \* value returned
    \* two overlapping calls of fetchCitations on the one API object
    runs,          \* per call: position, locals and its own events
    \* Parser (parser.js:9-293) and the overlay's confirmation flow
    strat,         \* determineSamplingStrategy: argument and value returned
    smp,           \* _randomSample: arguments, locals, values returned
    prs,           \* parseZoteroLibrary: arguments and value returned
    ovl,           \* analyzeCollection: what is announced, what is fetched
    \* the plugin's life cycle and user interface
    boot,          \* bootstrap.js: module loading and startup
    menu,          \* the collection menu, its listeners and timers
    pui,           \* ProgressUI: the panels of the window and the timers
    kgm,           \* KGMMain.run: position, dialogs shown, stored settings
    don,           \* the donation prompt and its preferences
    pref           \* the skipConfirm preferences and the dialogs shown

fetchVars == <<papers, pc, i, attempt, ret, result, stats, allCitations,
               userPaperIds, progress, inflight, output, waited, lastGap,
               reqCount, backoffs, rets, lastOutcome, delivered, exhausted>>

runVars == <<collection, runOutcome>>
gapVars == <<gData, gOpts, gSorted, gFull, gOut, gpc>>
scoreVars == <<sCit, sScore>>
parserVars == <<strat, smp, prs, ovl>>
uiVars == <<boot, menu, pui, kgm, don, pref>>

(* what the fetcher itself never touches *)
others == <<runVars, now, gapVars, scoreVars, runs, parserVars, uiVars>>

vars == <<fetchVars, others>>

----------------------------------------------------------------------------
(* Bounds of the model *)

MaxPapers == 2

(* Program constants, api.js:27-28 *)

delay == 3000
maxRetries == 3

(* paper.title.substring(0, 50), api.js:90 *)
CitedByLen == 50

Min(a, b) == IF a < b THEN a ELSE b

----------------------------------------------------------------------------
(* Values *)

Null == [kind |-> "null"]
RateLimited == [kind |-> "RATE_LIMITED"]
Data(paperId, citations) ==
    [kind |-> "data", paperId |-> paperId, citations |-> citations]

(* A citation entry of the API response; "" and 0 stand for absent fields. *)
Cite(id, title, year, count) ==
    [paperId |-> id, title |-> title, year |-> year, citationCount |-> count]

CiteA == Cite("S1", "Alpha", 2015, 250)
CiteB == Cite("S2", "", 2021, 0)

(* Papers as Parser._extractPaperInfo builds them: doi and title are always
   strings, doi "" when the item has none. A title is a sequence of
   characters. *)
PaperDomain ==
    { [doi |-> "", title |-> <<"n">>],
      [doi |-> "10.1/a", title |-> <<"a">>],
      [doi |-> "10.2/b", title |-> <<"b", "b">>] }

PaperLists ==
    UNION { [1..n -> PaperDomain] : n \in 0..MaxPapers }

(* Bodies of a 200 response: response.response *)
BodyDomain ==
    { [kind |-> "object", paperId |-> "P1", citations |-> <<CiteA, CiteB>>],
      [kind |-> "json_string", paperId |-> "", citations |-> <<CiteA>>],
      [kind |-> "bad_string", paperId |-> "", citations |-> <<>>],
      [kind |-> "null", paperId |-> "", citations |-> <<>>] }

NoBody == [kind |-> "none", paperId |-> "", citations |-> <<>>]

(* What Zotero.HTTP.request can do with a request: resolve to a response
   with a status, or throw an error. status 0 is a transport error (no HTTP
   status); msg429 says whether error.message contains "429". *)
Outcomes ==
    { [threw |-> FALSE, status |-> 200, msg429 |-> FALSE, body |-> b] :
          b \in BodyDomain }
    \cup
    { [threw |-> FALSE, status |-> s, msg429 |-> FALSE, body |-> NoBody] :
          s \in {404, 429, 500} }
    \cup
    { [threw |-> TRUE, status |-> 429, msg429 |-> TRUE, body |-> NoBody] }
    \cup
    { [threw |-> TRUE, status |-> 0, msg429 |-> m, body |-> NoBody] :
          m \in BOOLEAN }

(* A 200 response that carries a paper record *)
Usable(o) ==
    ~o.threw /\ o.status = 200 /\ o.body.kind \in {"object", "json_string"}

NoOutcome == [threw |-> FALSE, status |-> -1, msg429 |-> FALSE]

ZeroStats ==
    [totalRequests |-> 0, successful |-> 0, failed |-> 0,
     noDOI |-> 0, notFound |-> 0, rateLimited |-> 0]

Bump(s, f) == [s EXCEPT ![f] = @ + 1]

----------------------------------------------------------------------------
(* Pure parts of the code *)

(* api.js:201-204: response.response is used as it is unless it is a string,
   which is parsed; a parse error is signalled by kind "parse_error". *)
ParseBody(b) ==
    CASE b.kind = "object"      -> Data(b.paperId, b.citations)
      [] b.kind = "json_string" -> Data(b.paperId, b.citations)
      [] b.kind = "bad_string"  -> [kind |-> "parse_error"]
      [] OTHER                  -> Null

(* api.js:196-221: the branch on response.status. Gives the value
   _fetchPaperByDOI resolves to and the statistics after it. *)
HandleResponse(o, s) ==
    IF o.status = 200
    THEN LET s1 == Bump(s, "successful")
             d  == ParseBody(o.body)
         IN  IF d.kind = "parse_error"
             THEN [ret |-> Null, stats |-> Bump(s1, "failed")]
             ELSE [ret |-> d, stats |-> s1]
    ELSE IF o.status = 404
    THEN [ret |-> Null, stats |-> Bump(s, "notFound")]
    ELSE IF o.status = 429
    THEN [ret |-> RateLimited, stats |-> Bump(s, "rateLimited")]
    ELSE [ret |-> Null, stats |-> Bump(s, "failed")]

(* api.js:223-234: the catch block. *)
HandleError(o, s) ==
    IF o.msg429
    THEN [ret |-> RateLimited, stats |-> Bump(s, "rateLimited")]
    ELSE [ret |-> Null, stats |-> Bump(s, "failed")]

(* api.js:192-193: the fixed delay, slept after the request resolved and
   before its status is looked at; a thrown request skips it. *)
SleepAfter(o) == IF o.threw THEN 0 ELSE delay

(* the factor 2 forgotten *)
waitTimeNoFactor(a) == delay * a

(* api.js:149 *)
waitTime(a) == delay * a * 2

(* off by one: one attempt too many *)
ShouldRetryOffByOne(r, a) == r.kind = "RATE_LIMITED" /\ a <= maxRetries

(* api.js:148 *)
ShouldRetry(r, a) == r.kind = "RATE_LIMITED" /\ a < maxRetries

(* the sentinel handed on as it is *)
WrapperResultLeak(r) == r

(* api.js:155 *)
WrapperResult(r) == IF r.kind = "RATE_LIMITED" THEN Null ELSE r

(* Truthiness of the wrapper's result, api.js:74 *)
Truthy(r) == r.kind = "data"

(* paper.title.substring(0, 50), api.js:90 *)
Substring(t, n) == SubSeq(t, 1, Min(Len(t), n))

(* api.js:84-92: one record pushed per citation of the response *)
Collected(citations, paper) ==
    [k \in 1..Len(citations) |->
        [paperId |-> citations[k].paperId,
         title |-> citations[k].title,
         year |-> citations[k].year,
         citationCount |-> citations[k].citationCount,
         citedBy |-> Substring(paper.title, CitedByLen)]]

(* userPaperIds.add, api.js:76-78: a Set keeps first insertion order *)
SetAdd(seq, x) ==
    IF x = "" \/ \E k \in 1..Len(seq) : seq[k] = x THEN seq ELSE Append(seq, x)

(* api.js:101-113: deduplication by paperId, first record wins, counted *)
RECURSIVE DedupFrom(_, _, _)
DedupFrom(all, k, acc) ==
    IF k > Len(all) THEN acc
    ELSE LET c == all[k]
             hit == { j \in 1..Len(acc) : acc[j].paperId = c.paperId }
         IN  IF c.paperId = "" THEN DedupFrom(all, k + 1, acc)
             ELSE IF hit = {}
             THEN DedupFrom(all, k + 1,
                    Append(acc, [paperId |-> c.paperId, title |-> c.title,
                                 year |-> c.year,
                                 citationCount |-> c.citationCount,
                                 citedBy |-> c.citedBy,
                                 mentioned_count |-> 1]))
             ELSE LET j == CHOOSE x \in hit : TRUE
                  IN  DedupFrom(all, k + 1,
                        [acc EXCEPT ![j].mentioned_count = @ + 1])

(* the last record of an identifier wins instead of the first *)
RECURSIVE DedupLastFrom(_, _, _)
DedupLastFrom(all, k, acc) ==
    IF k > Len(all) THEN acc
    ELSE LET c == all[k]
             hit == { j \in 1..Len(acc) : acc[j].paperId = c.paperId }
         IN  IF c.paperId = "" THEN DedupLastFrom(all, k + 1, acc)
             ELSE IF hit = {}
             THEN DedupLastFrom(all, k + 1,
                    Append(acc, [paperId |-> c.paperId, title |-> c.title,
                                 year |-> c.year,
                                 citationCount |-> c.citationCount,
                                 citedBy |-> c.citedBy,
                                 mentioned_count |-> 1]))
             ELSE LET j == CHOOSE x \in hit : TRUE
                  IN  DedupLastFrom(all, k + 1,
                        [acc EXCEPT ![j] =
                           [paperId |-> c.paperId, title |-> c.title,
                            year |-> c.year,
                            citationCount |-> c.citationCount,
                            citedBy |-> c.citedBy,
                            mentioned_count |-> @.mentioned_count + 1]])

DeduplicateLastWins(all) == DedupLastFrom(all, 1, <<>>)

(* later records of an identifier are dropped without being counted *)
DeduplicateUncounted(all) ==
    LET d == DedupFrom(all, 1, <<>>)
    IN  [k \in 1..Len(d) |-> [d[k] EXCEPT !.mentioned_count = 1]]

Deduplicate(all) == DedupFrom(all, 1, <<>>)

(* api.js:115-124 *)
BuildResult(ps, ids, all) ==
    LET unique == Deduplicate(all)
    IN  [kind |-> "result",
         user_papers |-> ps,
         user_paper_ids |-> ids,
         all_citations |-> unique,
         stats |-> [user_papers_count |-> Len(ps),
                    total_citations |-> Len(all),
                    unique_citations |-> Len(unique)]]

NoOutput == [kind |-> "pending"]

----------------------------------------------------------------------------
(* The run *)

(* The parts of the state that belong to the other operations, at rest *)
NoRunOutcome == [kind |-> "none", msg |-> "", recs |-> <<>>]
NoData == [kind |-> "none"]
NoOpts == [minYear |-> 0, topN |-> 0, minMentions |-> 0]
NoScore == [kind |-> "none"]

(* the calendar year of the run *)
ThisYear == 2026

RunIdle == collection = <<>> /\ runOutcome = NoRunOutcome
GapIdle ==
    gData = NoData /\ gOpts = NoOpts /\ gSorted = <<>> /\ gFull = <<>>
    /\ gOut = <<>>
    /\ gpc = "idle"
ScoreIdle == sCit = NoData /\ sScore = NoScore
RunsIdle == runs = <<>>
ParserIdle ==
    strat = NoData /\ smp = NoData /\ prs = NoData /\ ovl = NoData
UiIdle ==
    boot = NoData /\ menu = NoData /\ pui = NoData /\ kgm = NoData
    /\ don = NoData /\ pref = NoData

Init ==
    /\ papers \in PaperLists
    /\ pc = "start"
    /\ i = 0
    /\ attempt = 1
    /\ ret = Null
    /\ result = Null
    /\ stats = ZeroStats
    /\ allCitations = <<>>
    /\ userPaperIds = <<>>
    /\ progress = <<>>
    /\ inflight = <<>>
    /\ output = NoOutput
    /\ waited = 0
    /\ lastGap = -1
    /\ reqCount = [k \in 1..Len(papers) |-> 0]
    /\ backoffs = <<>>
    /\ rets = <<>>
    /\ lastOutcome = NoOutcome
    /\ delivered = <<>>
    /\ exhausted = 0
    /\ RunIdle /\ now = ThisYear /\ GapIdle /\ ScoreIdle /\ RunsIdle
    /\ ParserIdle /\ UiIdle

history == <<waited, lastGap, reqCount, backoffs, rets, lastOutcome,
             delivered, exhausted>>

(* api.js:49-58: fetchCitations is entered *)
Start ==
    /\ pc = "start"
    /\ stats' = ZeroStats
    /\ allCitations' = <<>>
    /\ userPaperIds' = <<>>
    /\ i' = 0
    /\ pc' = "loop"
    /\ UNCHANGED <<papers, attempt, ret, result, progress, inflight, output,
                   history>>
    /\ UNCHANGED others

(* the callback is only made for papers that will be requested *)
LoopHeadSilentSkip ==
    /\ pc = "loop"
    /\ i < Len(papers)
    /\ progress' = IF papers[i + 1].doi = "" THEN progress
                   ELSE Append(progress,
                               <<i + 1, Len(papers), papers[i + 1].title>>)
    /\ attempt' = 1
    /\ backoffs' = <<>>
    /\ rets' = <<>>
    /\ pc' = "call"
    /\ UNCHANGED <<papers, i, ret, result, stats, allCitations, userPaperIds,
                   inflight, output, waited, lastGap, reqCount, lastOutcome,
                   delivered, exhausted>>
    /\ UNCHANGED others

(* the callback is not made at the head of the iteration *)
LoopHeadNoCallback ==
    /\ pc = "loop"
    /\ i < Len(papers)
    /\ attempt' = 1
    /\ backoffs' = <<>>
    /\ rets' = <<>>
    /\ pc' = "call"
    /\ UNCHANGED <<papers, i, ret, result, stats, allCitations, userPaperIds,
                   progress, inflight, output, waited, lastGap, reqCount,
                   lastOutcome, delivered, exhausted>>
    /\ UNCHANGED others

(* api.js:61-72: loop test, progress callback, call of the retry wrapper *)
LoopHead ==
    /\ pc = "loop"
    /\ i < Len(papers)
    /\ progress' = Append(progress, <<i + 1, Len(papers), papers[i + 1].title>>)
    /\ attempt' = 1
    /\ backoffs' = <<>>
    /\ rets' = <<>>
    /\ pc' = "call"
    /\ UNCHANGED <<papers, i, ret, result, stats, allCitations, userPaperIds,
                   inflight, output, waited, lastGap, reqCount, lastOutcome,
                   delivered, exhausted>>
    /\ UNCHANGED others

(* api.js:165-170: _fetchPaperByDOI without a DOI *)
SkipNoDOI ==
    /\ pc = "call"
    /\ papers[i + 1].doi = ""
    /\ stats' = Bump(stats, "noDOI")
    /\ ret' = Null
    /\ rets' = Append(rets, Null)
    /\ pc' = "returned"
    /\ UNCHANGED <<papers, i, attempt, result, allCitations, userPaperIds,
                   progress, inflight, output, waited, lastGap, reqCount,
                   backoffs, lastOutcome, delivered, exhausted>>
    /\ UNCHANGED others

(* the request is sent but not awaited: response.status is undefined, the
   flow goes on through the last branch while the request is outstanding *)
IssueRequestNoAwait ==
    /\ pc = "call"
    /\ papers[i + 1].doi # ""
    /\ stats' = Bump(Bump(stats, "totalRequests"), "failed")
    /\ inflight' = Append(inflight, i)
    /\ reqCount' = [reqCount EXCEPT ![i + 1] = @ + 1]
    /\ lastGap' = IF stats.totalRequests = 0 THEN -1 ELSE waited
    /\ waited' = delay
    /\ ret' = Null
    /\ rets' = Append(rets, Null)
    /\ pc' = "returned"
    /\ UNCHANGED <<papers, i, attempt, result, allCitations, userPaperIds,
                   progress, output, backoffs, lastOutcome, delivered,
                   exhausted>>
    /\ UNCHANGED others

(* api.js:172-190: the request is sent and awaited *)
IssueRequest ==
    /\ pc = "call"
    /\ papers[i + 1].doi # ""
    /\ stats' = Bump(stats, "totalRequests")
    /\ inflight' = Append(inflight, i)
    /\ reqCount' = [reqCount EXCEPT ![i + 1] = @ + 1]
    /\ lastGap' = IF stats.totalRequests = 0 THEN -1 ELSE waited
    /\ pc' = "awaitHTTP"
    /\ UNCHANGED <<papers, i, attempt, ret, result, allCitations,
                   userPaperIds, progress, output, waited, backoffs, rets,
                   lastOutcome, delivered, exhausted>>
    /\ UNCHANGED others

(* api.js:183-234: the request resolves or throws; the delay; the branch on
   the status or the catch block *)
Respond ==
    /\ pc = "awaitHTTP"
    /\ inflight # <<>>
    /\ \E o \in Outcomes :
         LET h == IF o.threw THEN HandleError(o, stats)
                  ELSE HandleResponse(o, stats)
         IN  /\ stats' = h.stats
             /\ ret' = h.ret
             /\ rets' = Append(rets, h.ret)
             /\ waited' = SleepAfter(o)
             /\ lastOutcome' =
                  [threw |-> o.threw, status |-> o.status, msg429 |-> o.msg429]
             /\ delivered' =
                  IF Usable(o)
                  THEN delivered \o
                       [k \in 1..Len(o.body.citations) |->
                          [src |-> i, paperId |-> o.body.citations[k].paperId]]
                  ELSE delivered
    /\ inflight' = Tail(inflight)
    /\ pc' = "returned"
    /\ UNCHANGED <<papers, i, attempt, result, allCitations, userPaperIds,
                   progress, output, lastGap, reqCount, backoffs, exhausted>>
    /\ UNCHANGED others

(* api.js:147-153: rate limited with retries left: back off, call again *)
Retry ==
    /\ pc = "returned"
    /\ ShouldRetry(ret, attempt)
    /\ backoffs' = Append(backoffs, waitTime(attempt))
    /\ waited' = waited + waitTime(attempt)
    /\ attempt' = attempt + 1
    /\ pc' = "call"
    /\ UNCHANGED <<papers, i, ret, result, stats, allCitations, userPaperIds,
                   progress, inflight, output, lastGap, reqCount, rets,
                   lastOutcome, delivered, exhausted>>
    /\ UNCHANGED others

(* api.js:155: the wrapper resolves *)
Resolve ==
    /\ pc = "returned"
    /\ ~ShouldRetry(ret, attempt)
    /\ result' = WrapperResult(ret)
    /\ exhausted' = IF ret.kind = "RATE_LIMITED" THEN exhausted + 1
                    ELSE exhausted
    /\ pc' = "collect"
    /\ UNCHANGED <<papers, i, attempt, ret, stats, allCitations, userPaperIds,
                   progress, inflight, output, waited, lastGap, reqCount,
                   backoffs, rets, lastOutcome, delivered>>
    /\ UNCHANGED others

(* a paper without data ends the loop *)
CollectAbortOnFailure ==
    /\ pc = "collect"
    /\ IF Truthy(result)
       THEN /\ userPaperIds' = SetAdd(userPaperIds, result.paperId)
            /\ allCitations' =
                 allCitations \o Collected(result.citations, papers[i + 1])
            /\ i' = i + 1
       ELSE /\ UNCHANGED <<userPaperIds, allCitations>>
            /\ i' = Len(papers)
    /\ pc' = "loop"
    /\ UNCHANGED <<papers, attempt, ret, result, stats, progress, inflight,
                   output, history>>
    /\ UNCHANGED others

(* api.js:74-96: the result of one paper is collected; next iteration *)
Collect ==
    /\ pc = "collect"
    /\ IF Truthy(result)
       THEN /\ userPaperIds' = SetAdd(userPaperIds, result.paperId)
            /\ allCitations' =
                 allCitations \o Collected(result.citations, papers[i + 1])
       ELSE UNCHANGED <<userPaperIds, allCitations>>
    /\ i' = i + 1
    /\ pc' = "loop"
    /\ UNCHANGED <<papers, attempt, ret, result, stats, progress, inflight,
                   output, history>>
    /\ UNCHANGED others

(* api.js:61, 98-133: the loop ends; deduplication; the result is returned *)
Return ==
    /\ pc = "loop"
    /\ i >= Len(papers)
    /\ output' = BuildResult(papers, userPaperIds, allCitations)
    /\ pc' = "done"
    /\ UNCHANGED <<papers, i, attempt, ret, result, stats, allCitations,
                   userPaperIds, progress, inflight, history>>
    /\ UNCHANGED others

Next ==
    \/ Start
    \/ LoopHead
    \/ SkipNoDOI
    \/ IssueRequest
    \/ Respond
    \/ Retry
    \/ Resolve
    \/ Collect
    \/ Return

Spec == Init /\ [][Next]_vars

(* The event loop runs every continuation that is ready, and every request
   resolves or throws within its timeout (api.js:188). *)
FairSpec == Spec /\ WF_vars(Next)

----------------------------------------------------------------------------
(* Properties of the fetcher *)

Done == pc = "done"
Busy == pc \in {"call", "awaitHTTP", "returned", "collect"}
AllRateLimited(rs) == \A k \in 1..Len(rs) : rs[k].kind = "RATE_LIMITED"
HasDOI(k) == papers[k].doi # ""

RECURSIVE SumTo(_, _)
SumTo(f, n) == IF n = 0 THEN 0 ELSE f[n] + SumTo(f, n - 1)

(* C1: a single source's failure never aborts the run. When fetchCitations
   has returned, every source was visited (the loop index reached the end,
   one callback per source, at least one request per source with a DOI),
   the value returned is a result object and no failure value, and the
   citations collected are exactly the ones the usable 200 responses
   delivered, in order. *)
C1_FailureNeverAborts ==
    /\ result.kind \in {"null", "data"}
    /\ output.kind \in {"pending", "result"}
    /\ Done =>
         /\ output.kind = "result"
         /\ i = Len(papers)
         /\ Len(progress) = Len(papers)
         /\ \A k \in 1..Len(papers) : HasDOI(k) => reqCount[k] >= 1
         /\ Len(allCitations) = Len(delivered)
         /\ \A k \in 1..Len(delivered) :
              /\ allCitations[k].paperId = delivered[k].paperId
              /\ allCitations[k].citedBy = papers[delivered[k].src + 1].title
         /\ output.stats.total_citations = Len(delivered)
         /\ { output.all_citations[k].paperId :
                k \in 1..Len(output.all_citations) }
            = { delivered[k].paperId : k \in 1..Len(delivered) } \ {""}

(* C1 witness: the first source was rate limited on all three attempts and
   the run still returned citations of the second one. *)
C1_Witness ==
    /\ Done
    /\ Len(papers) = 2
    /\ reqCount[1] = maxRetries
    /\ exhausted = 1
    /\ stats.successful = 1
    /\ output.all_citations # <<>>

(* C2: retries are bounded. No source is requested more than maxRetries
   times, a source without identifier is never requested, the run issues at
   most maxRetries * N requests, a source whose attempts were all rate
   limited is given up after exactly maxRetries requests, and the run
   terminates. *)
C2_RetriesBounded ==
    /\ [](/\ \A k \in 1..Len(papers) :
               /\ reqCount[k] <= maxRetries
               /\ ~HasDOI(k) => reqCount[k] = 0
          /\ stats.totalRequests <= maxRetries * Len(papers)
          /\ stats.totalRequests = SumTo(reqCount, Len(papers))
          /\ (pc = "collect" /\ rets # <<>> /\ AllRateLimited(rets)
                => reqCount[i + 1] = maxRetries /\ result = Null))
    /\ <>Done

(* C2 witness: a source that was rate limited three times has been given
   up and the run has ended. *)
C2_Witness ==
    /\ Done
    /\ exhausted >= 1
    /\ \E k \in 1..Len(papers) : reqCount[k] = maxRetries

(* C3: the rate-limited sentinel never leaves the retry wrapper: what the
   wrapper resolved to is paper data or null, and it is null when every
   attempt was rate limited. *)
C3_SentinelContained ==
    /\ result.kind \in {"data", "null"}
    /\ (pc = "collect" /\ rets # <<>> /\ AllRateLimited(rets))
         => result = Null

(* C3 witness: the wrapper has resolved after three rate-limited attempts. *)
C3_Witness ==
    /\ pc = "collect"
    /\ Len(rets) = maxRetries
    /\ AllRateLimited(rets)
    /\ result = Null

(* C4: sources are processed in input order with at most one request
   outstanding: the only request that can be outstanding is one of the
   current source, and no later source has been requested yet. *)
C4_Serialized ==
    /\ Len(inflight) <= 1
    /\ inflight # <<>> => (inflight[1] = i /\ pc = "awaitHTTP")
    /\ \A k \in 1..Len(papers) : reqCount[k] > 0 => k <= i + 1

(* C4 witness: the request of the second source is outstanding after the
   first source used all its retries. *)
C4_Witness ==
    /\ inflight = <<1>>
    /\ reqCount[1] = maxRetries
    /\ reqCount[2] = 1

(* C5 as claimed: every request but the first of the run is issued after a
   wait of at least the inter-request delay since the request before it
   completed. *)
C5_DelayBeforeEveryRequest ==
    lastGap = -1 \/ lastGap >= delay

(* C6 as amended: the backoff before the first retry is twice the base
   delay (6000 ms) and the backoff before every further retry is twice the
   one before it. *)
C6_BackoffFromTwiceDelay ==
    \A k \in 1..Len(backoffs) :
        IF k = 1 THEN backoffs[k] = 2 * delay
        ELSE backoffs[k] = 2 * backoffs[k - 1]

(* C6 as claimed: the backoff before the first retry equals the base delay
   and doubles with every further retry. *)
C6_BackoffFromDelay ==
    \A k \in 1..Len(backoffs) :
        IF k = 1 THEN backoffs[k] = delay
        ELSE backoffs[k] = 2 * backoffs[k - 1]

(* C6 witness: a source has been backed off twice. *)
C6_Witness ==
    /\ Len(backoffs) = 2
    /\ backoffs = <<6000, 12000>>

(* C7 as claimed: a completed request is classified by its HTTP status
   alone: 200 is counted successful and not retried, 404 and every other
   status or transport error resolve to failure, and a retry is triggered
   by status 429 and by nothing else. *)
C7_ClassifiedByStatusAlone ==
    (pc = "returned" /\ HasDOI(i + 1)) =>
        /\ lastOutcome.status = 200
             => stats.successful >= 1 /\ ret.kind # "RATE_LIMITED"
        /\ lastOutcome.status = 429 => ret.kind = "RATE_LIMITED"
        /\ lastOutcome.status \notin {200, 429} => ret = Null

(* C8: the progress callback fires exactly once per source, in input
   order, with (k, N, title of source k), also for skipped and failed
   sources, and retries cause no further call. *)
C8_ProgressOncePerSource ==
    /\ progress = [k \in 1..Len(progress) |->
                     <<k, Len(papers), papers[k].title>>]
    /\ Len(progress) <= Len(papers)
    /\ Done => Len(progress) = Len(papers)

(* C8 witness: a run over a skipped source and a source that was retried
   has ended. *)
C8_Witness ==
    /\ Done
    /\ Len(papers) = 2
    /\ ~HasDOI(1)
    /\ reqCount[2] >= 2
    /\ Len(progress) = 2

(* C9 as claimed: when the callback of a source has been made, the source
   has been processed. *)
C9_ProgressAfterProcessing ==
    \A k \in 1..Len(progress) : k <= i

(* C9 as amended: the callback of a source is made when its processing
   starts: after the source before it has been processed completely and
   before the first request of the source itself. *)
C9_ProgressBeforeProcessing ==
    /\ Len(progress) = IF Busy THEN i + 1 ELSE i
    /\ \A k \in 1..Len(papers) : reqCount[k] > 0 => k <= Len(progress)
    /\ Busy => progress[i + 1][1] = i + 1

(* C9 witness: the callback of the second source has been made, and its
   first request has not been issued. *)
C9_Witness ==
    /\ pc = "call"
    /\ i = 1
    /\ Len(progress) = 2
    /\ reqCount[1] >= 1
    /\ reqCount[2] = 0

(* C10 as claimed: at the end of the run every source is counted in exactly
   one of successful, noDOI, notFound, rateLimited, failed, so that they
   sum to the number of sources, and rateLimited is the number of sources
   whose retries were exhausted. *)
C10_CountersPartitionSources ==
    Done =>
        /\ stats.successful + stats.noDOI + stats.notFound
             + stats.rateLimited + stats.failed = Len(papers)
        /\ stats.rateLimited = exhausted

----------------------------------------------------------------------------
(* Analyzer (parser.js:764-939) *)

(* Scores are kept in thousandths of a point. *)
Scale == 1000

(* Defaults and thresholds of the analyzer *)
EarlyBeforeYear == 2016
EarlyMinCitations == 200
EarlyMaxMarked == 2
WindowFactor == 2
MentionWeight == 10
ImpactDivisor == 100
ImpactCap == 5

(* A year as it arrives in a citation: 0 stands for an absent (falsy)
   value, NaNYear for a value that is present and not a number. *)
NaNYear == -1

(* parseInt(c.year) *)
ParseInt(y) ==
    IF y = NaNYear THEN [nan |-> TRUE, v |-> 0] ELSE [nan |-> FALSE, v |-> y]

InSeq(x, seq) == \E k \in 1..Len(seq) : seq[k] = x

(* drops the own papers' citations from nothing at all *)
FilterOwnKeepAll(cs, ids) == cs

(* parser.js:792-795: Filter 1, the user's own papers *)
FilterOwn(cs, ids) ==
    LET Keep(c) == ~InSeq(c.paperId, ids)
    IN  SelectSeq(cs, Keep)

(* a candidate without a year is let through *)
FilterYearKeepsMissing(cs, minYear) ==
    LET Keep(c) ==
          \/ c.year = 0
          \/ /\ ~ParseInt(c.year).nan
             /\ ParseInt(c.year).v >= minYear
    IN  SelectSeq(cs, Keep)

(* parser.js:798-803: Filter 2, the year threshold *)
FilterYear(cs, minYear) ==
    LET Keep(c) ==
          /\ c.year # 0
          /\ ~ParseInt(c.year).nan
          /\ ParseInt(c.year).v >= minYear
    IN  SelectSeq(cs, Keep)

(* parser.js:806-809: Filter 3, the minimum number of mentions *)
FilterMentions(cs, minMentions) ==
    LET Keep(c) == c.mentioned_count >= minMentions
    IN  SelectSeq(cs, Keep)

(* parseFloat(x.toFixed(2)): to the nearest hundredth *)
Round2(x) == ((x + 5) \div 10) * 10

(* the recency bonus with the first threshold taken as exclusive *)
RecencyScoreExclusive(y, currentYear) ==
    IF y = 0 \/ ParseInt(y).nan THEN 0
    ELSE LET age == currentYear - ParseInt(y).v
         IN  IF age < 3 THEN 3
             ELSE IF age <= 5 THEN 2
             ELSE IF age <= 10 THEN 1
             ELSE 0

(* parser.js:880-894 *)
RecencyScore(y, currentYear) ==
    IF y = 0 \/ ParseInt(y).nan THEN 0
    ELSE LET age == currentYear - ParseInt(y).v
         IN  IF age <= 3 THEN 3
             ELSE IF age <= 5 THEN 2
             ELSE IF age <= 10 THEN 1
             ELSE 0

(* the impact score without its cap *)
CalculateScoreUncapped(c, currentYear) ==
    LET mentionedScore == c.mentioned_count * MentionWeight * Scale
        impactScore == (c.citationCount * Scale) \div ImpactDivisor
        recencyScore == RecencyScore(c.year, currentYear) * Scale
    IN  [totalScore |-> mentionedScore + impactScore + recencyScore,
         mentionedScore |-> mentionedScore,
         impactScore |-> Round2(impactScore),
         recencyScore |-> recencyScore]

(* parser.js:863-904: _calculateScore, in thousandths *)
CalculateScore(c, currentYear) ==
    LET mentionedScore == c.mentioned_count * MentionWeight * Scale
        impactScore ==
            Min((c.citationCount * Scale) \div ImpactDivisor,
                ImpactCap * Scale)
        recencyScore == RecencyScore(c.year, currentYear) * Scale
    IN  [totalScore |-> mentionedScore + impactScore + recencyScore,
         mentionedScore |-> mentionedScore,
         impactScore |-> Round2(impactScore),
         recencyScore |-> recencyScore]

(* parser.js:818-827: the citation with its scores *)
Scored(c, currentYear) ==
    LET sc == CalculateScore(c, currentYear)
    IN  [paperId |-> c.paperId, title |-> c.title, year |-> c.year,
         citationCount |-> c.citationCount, citedBy |-> c.citedBy,
         mentioned_count |-> c.mentioned_count,
         totalScore |-> sc.totalScore,
         mentionedScore |-> sc.mentionedScore,
         impactScore |-> sc.impactScore,
         recencyScore |-> sc.recencyScore,
         isEarlyInfluential |-> FALSE]

(* Array.prototype.sort is stable. The elements are named by their
   positions; key[a] - key[b] is what the comparator returns for them. An
   element is put behind every element it does not have to precede. *)
RECURSIVE InsertSorted(_, _, _)
InsertSorted(sorted, x, key) ==
    IF sorted = <<>> THEN <<x>>
    ELSE IF key[x] - key[sorted[Len(sorted)]] < 0
    THEN Append(InsertSorted(SubSeq(sorted, 1, Len(sorted) - 1), x, key),
                sorted[Len(sorted)])
    ELSE Append(sorted, x)

RECURSIVE StableSortTo(_, _, _)
StableSortTo(idx, n, key) ==
    IF n = 0 THEN <<>>
    ELSE InsertSorted(StableSortTo(idx, n - 1, key), idx[n], key)

(* the positions idx, in the order the sort leaves them *)
StableSort(idx, key) == StableSortTo(idx, Len(idx), key)

(* sorted the wrong way round: a.totalScore - b.totalScore *)
SortByScoreAscending(recs) ==
    LET key == [k \in 1..Len(recs) |-> recs[k].totalScore]
        order == StableSort([k \in 1..Len(recs) |-> k], key)
    IN  [k \in 1..Len(recs) |-> recs[order[k]]]

(* parser.js:830: sort((a, b) => b.totalScore - a.totalScore) *)
SortByScore(recs) ==
    LET key == [k \in 1..Len(recs) |-> 0 - recs[k].totalScore]
        order == StableSort([k \in 1..Len(recs) |-> k], key)
    IN  [k \in 1..Len(recs) |-> recs[order[k]]]

(* parser.js:921-925 *)
IsEarly(r) ==
    /\ ~ParseInt(r.year).nan
    /\ ParseInt(r.year).v < EarlyBeforeYear
    /\ r.citationCount >= EarlyMinCitations

(* marking also adds a point to the score of the papers it marks *)
MarkEarlyInfluentialRescoring(recs, topN) ==
    LET window == Min(topN * WindowFactor, Len(recs))
        Early(k) == IsEarly(recs[k])
        earlyPapers == SelectSeq([k \in 1..window |-> k], Early)
        key == [k \in 1..Len(recs) |-> ParseInt(recs[k].year).v]
        byYear == StableSort(earlyPapers, key)
        numToMark == Min(EarlyMaxMarked, Len(byYear))
        marked == { byYear[k] : k \in 1..numToMark }
    IN  [k \in 1..Len(recs) |->
           IF k \in marked
           THEN [recs[k] EXCEPT !.isEarlyInfluential = TRUE,
                                !.totalScore = @ + Scale]
           ELSE recs[k]]

(* marks the first qualifying papers in score order, not the oldest *)
MarkEarlyInfluentialUnsorted(recs, topN) ==
    LET window == Min(topN * WindowFactor, Len(recs))
        Early(k) == IsEarly(recs[k])
        earlyPapers == SelectSeq([k \in 1..window |-> k], Early)
        numToMark == Min(EarlyMaxMarked, Len(earlyPapers))
        marked == { earlyPapers[k] : k \in 1..numToMark }
    IN  [k \in 1..Len(recs) |->
           IF k \in marked THEN [recs[k] EXCEPT !.isEarlyInfluential = TRUE]
           ELSE recs[k]]

(* parser.js:914-938: _markEarlyInfluential. The papers are objects shared
   with the list, named here by their position in it. *)
MarkEarlyInfluential(recs, topN) ==
    LET window == Min(topN * WindowFactor, Len(recs))
        Early(k) == IsEarly(recs[k])
        earlyPapers == SelectSeq([k \in 1..window |-> k], Early)
        key == [k \in 1..Len(recs) |-> ParseInt(recs[k].year).v]
        byYear == StableSort(earlyPapers, key)
        numToMark == Min(EarlyMaxMarked, Len(byYear))
        marked == { byYear[k] : k \in 1..numToMark }
    IN  [k \in 1..Len(recs) |->
           IF k \in marked THEN [recs[k] EXCEPT !.isEarlyInfluential = TRUE]
           ELSE recs[k]]

(* recommendations.slice(0, topN), for topN >= 0 *)
Slice(recs, n) == SubSeq(recs, 1, Min(n, Len(recs)))

(* parser.js:787-830: the candidates filtered, scored and sorted *)
FindGapsSorted(data, opts, currentYear) ==
    LET c1 == FilterOwn(data.all_citations, data.user_paper_ids)
        c2 == FilterYear(c1, opts.minYear)
        c3 == FilterMentions(c2, opts.minMentions)
        recommendations == [k \in 1..Len(c3) |-> Scored(c3[k], currentYear)]
    IN  IF c3 = <<>> THEN <<>>
        ELSE SortByScore(recommendations)

(* parser.js:787-833: the candidates filtered, scored, sorted and marked *)
FindGapsFull(data, opts, currentYear) ==
    LET sorted == FindGapsSorted(data, opts, currentYear)
    IN  IF sorted = <<>> THEN <<>>
        ELSE MarkEarlyInfluential(sorted, opts.topN)

(* parser.js:776-853: findGaps *)
FindGaps(data, opts, currentYear) ==
    Slice(FindGapsFull(data, opts, currentYear), opts.topN)

----------------------------------------------------------------------------
(* LitGapMain.run (parser.js:304-464), up to the recommendations: the
   collection is parsed, the papers with a DOI are fetched, the citations
   are analysed. The retry wrapper is taken by the value it resolves to for
   each paper: paper data or null. *)

MaxSources == 3

(* Semantic Scholar ids of the papers of the collection, by position *)
SourceIds == <<"P1", "P2", "P3", "P4", "P5", "P6">>
SourceDois == <<"10.1/p1", "10.1/p2", "10.1/p3", "10.1/p4", "10.1/p5",
                "10.1/p6">>
SourceTitles == <<<<"p", "1">>, <<"p", "2">>, <<"p", "3">>, <<"p", "4">>,
                  <<"p", "5">>, <<"p", "6">>>>

(* The paper at position k of the collection, with or without a DOI. sid is
   the id the citation service knows the paper by; the code never reads it. *)
SourcePaper(k, hasDoi) ==
    [doi |-> IF hasDoi THEN SourceDois[k] ELSE "",
     title |-> SourceTitles[k],
     sid |-> SourceIds[k]]

Collections ==
    UNION { { [k \in 1..n |-> SourcePaper(k, d[k])] : d \in [1..n -> BOOLEAN] }
            : n \in 0..MaxSources }

(* Citation entries of the responses: another record of S1 that disagrees
   with CiteA, an entry for the first paper of the collection, an entry
   without id *)
CiteA2 == Cite("S1", "Alpha (preprint)", 2014, 10)
CiteP1 == Cite("P1", "One", 2018, 120)
CiteNoId == Cite("", "Lost", 2020, 5)

SourceCiteLists ==
    { <<CiteA, CiteB>>, <<CiteA2, CiteP1>>, <<CiteB, CiteB, CiteNoId>> }

(* Two entries that every paper of the collection can cite, and one entry
   for each paper that only this paper cites *)
CiteX == Cite("X1", "Shared one", 2019, 40)
CiteY == Cite("X2", "Shared two", 2020, 30)
OnlyIds == <<"U1", "U2", "U3", "U4", "U5", "U6">>
SharedAndOwn(paper) ==
    LET k == CHOOSE n \in 1..Len(SourceIds) : SourceIds[n] = paper.sid
    IN  <<CiteX, CiteY, Cite(OnlyIds[k], "Only", 2022, 3)>>

(* What the retry wrapper can resolve to for a paper (api.js:155) *)
WrapperResults(paper) ==
    {Null} \cup
    { Data(paper.sid, l) : l \in SourceCiteLists \cup {SharedAndOwn(paper)} }

(* parser.js:364-368 *)
RunMinYear == 2010
RunTopN == 10
RunMinMentions == 2
RunOptions ==
    [minYear |-> RunMinYear, topN |-> RunTopN, minMentions |-> RunMinMentions]

RunError(msg) == [kind |-> "error", msg |-> msg, recs |-> <<>>]

RunInit ==
    /\ collection \in Collections
    /\ runOutcome = NoRunOutcome
    /\ now = ThisYear
    /\ papers = <<>>
    /\ pc = "run"
    /\ i = 0
    /\ attempt = 1
    /\ ret = Null
    /\ result = Null
    /\ stats = ZeroStats
    /\ allCitations = <<>>
    /\ userPaperIds = <<>>
    /\ progress = <<>>
    /\ inflight = <<>>
    /\ output = NoOutput
    /\ waited = 0
    /\ lastGap = -1
    /\ reqCount = <<>>
    /\ backoffs = <<>>
    /\ rets = <<>>
    /\ lastOutcome = NoOutcome
    /\ delivered = <<>>
    /\ exhausted = 0
    /\ GapIdle /\ ScoreIdle /\ RunsIdle /\ ParserIdle /\ UiIdle

(* parser.js:329 *)
PapersWithDOI(ps) ==
    LET Has(p) == p.doi # ""
    IN  SelectSeq(ps, Has)

(* parser.js:304-345: the checks before the fetch *)
RunBegin ==
    /\ pc = "run"
    /\ IF Len(collection) = 0
       THEN /\ runOutcome' = RunError("No papers found in collection")
            /\ pc' = "finished"
            /\ UNCHANGED <<papers, reqCount>>
       ELSE IF Len(PapersWithDOI(collection)) = 0
       THEN /\ runOutcome' = RunError("No papers with DOI found")
            /\ pc' = "finished"
            /\ UNCHANGED <<papers, reqCount>>
       ELSE /\ papers' = PapersWithDOI(collection)
            /\ reqCount' = [k \in 1..Len(PapersWithDOI(collection)) |-> 0]
            /\ pc' = "start"
            /\ UNCHANGED runOutcome
    /\ UNCHANGED <<i, attempt, ret, result, stats, allCitations, userPaperIds,
                   progress, inflight, output, waited, lastGap, backoffs,
                   rets, lastOutcome, delivered, exhausted>>
    /\ UNCHANGED <<collection, now, gapVars, scoreVars, runs, parserVars, uiVars>>

(* api.js:61-72 with api.js:144-156: the callback, and the wrapper resolves *)
FetchOne ==
    /\ pc = "loop"
    /\ i < Len(papers)
    /\ progress' = Append(progress, <<i + 1, Len(papers), papers[i + 1].title>>)
    /\ \E r \in WrapperResults(papers[i + 1]) :
         /\ result' = r
         /\ delivered' =
              IF r.kind = "data"
              THEN delivered \o
                   [k \in 1..Len(r.citations) |->
                      [src |-> i, paperId |-> r.citations[k].paperId]]
              ELSE delivered
    /\ pc' = "collect"
    /\ UNCHANGED <<papers, i, attempt, ret, stats, allCitations, userPaperIds,
                   inflight, output, waited, lastGap, reqCount, backoffs,
                   rets, lastOutcome, exhausted>>
    /\ UNCHANGED others

(* parser.js:355-380, 451-463: what the run reports for the data fetched and
   the recommendations found *)
ReportOf(data, recs) ==
    IF data.kind # "result"
    THEN RunError("Failed to fetch citation data")
    ELSE IF Len(recs) = 0
    THEN [kind |-> "no_gaps", msg |-> "No knowledge gaps found", recs |-> <<>>]
    ELSE [kind |-> "recommendations", msg |-> "", recs |-> recs]

(* parser.js:355-380: the citations are analysed *)
RunAnalyze ==
    /\ pc = "done"
    /\ runOutcome' =
         ReportOf(output,
                  IF output.kind = "result"
                  THEN FindGaps(output, RunOptions, now) ELSE <<>>)
    /\ pc' = "finished"
    /\ UNCHANGED <<papers, i, attempt, ret, result, stats, allCitations,
                   userPaperIds, progress, inflight, output, history>>
    /\ UNCHANGED <<collection, now, gapVars, scoreVars, runs, parserVars, uiVars>>

RunNext ==
    \/ RunBegin
    \/ Start
    \/ FetchOne
    \/ Collect
    \/ Return
    \/ RunAnalyze

RunSpec == RunInit /\ [][RunNext]_vars

Finished == pc = "finished"

(* C11 as claimed: a run in which every source failed and no citation was
   collected is reported as failed, which tells it apart from a run that
   collected citations and found no gap. *)
C11_ZeroCitationsReportedAsFailure ==
    (Finished /\ Len(papers) > 0 /\ delivered = <<>> /\ allCitations = <<>>)
        => runOutcome.kind = "error"

(* the records of the run that carry the identifier id, by position *)
RawWith(id) == { k \in 1..Len(allCitations) : allCitations[k].paperId = id }

FirstWith(id) == CHOOSE k \in RawWith(id) : \A j \in RawWith(id) : k <= j

Fetched == pc \in {"done", "finished"} /\ output.kind = "result"

(* C13: the aggregation gives exactly one candidate for each distinct
   non-empty identifier among the raw records; its mention count is the
   number of raw records with that identifier; its title and year are those
   of the first such record; records without identifier give no candidate. *)
C13_OneCandidatePerIdentifier ==
    Fetched =>
      LET u == output.all_citations
      IN  /\ \A a, b \in 1..Len(u) : u[a].paperId = u[b].paperId => a = b
          /\ { u[k].paperId : k \in 1..Len(u) }
               = { allCitations[k].paperId : k \in 1..Len(allCitations) }
                   \ {""}
          /\ \A k \in 1..Len(u) :
               /\ u[k].mentioned_count = Cardinality(RawWith(u[k].paperId))
               /\ u[k].title = allCitations[FirstWith(u[k].paperId)].title
               /\ u[k].year = allCitations[FirstWith(u[k].paperId)].year

(* two records of one identifier that disagree, and a record without
   identifier, have been aggregated *)
C13_Witness ==
    /\ Fetched
    /\ \E k \in 1..Len(output.all_citations) :
         /\ output.all_citations[k].mentioned_count = 2
         /\ \E a, b \in RawWith(output.all_citations[k].paperId) :
              /\ a < b
              /\ allCitations[a].title # allCitations[b].title
              /\ allCitations[a].year # allCitations[b].year
    /\ RawWith("") # {}

(* the sources of the run whose citation list holds the identifier id *)
SourcesCiting(id) ==
    { delivered[k].src : k \in { j \in 1..Len(delivered) :
                                    delivered[j].paperId = id } }

(* C14 as claimed: the mention count of every candidate is at least 1, at
   most the number of source papers processed, and equal to the number of
   distinct source papers whose citation list holds the candidate. *)
C14_MentionsCountDistinctSources ==
    Fetched =>
      \A k \in 1..Len(output.all_citations) :
        LET c == output.all_citations[k]
        IN  /\ 1 <= c.mentioned_count
            /\ c.mentioned_count <= Len(papers)
            /\ c.mentioned_count = Cardinality(SourcesCiting(c.paperId))

(* the identifiers of the papers of the collection *)
CollectionIds == { collection[k].sid : k \in 1..Len(collection) }

(* C16 as claimed: no paper of the analysed collection is among the
   recommendations, whatever the fetches of the sources resolve to. *)
C16_RecommendedNotInCollection ==
    (Finished /\ runOutcome.kind = "recommendations") =>
      \A k \in 1..Len(runOutcome.recs) :
        runOutcome.recs[k].paperId \notin CollectionIds

----------------------------------------------------------------------------
(* Two calls of fetchCitations on the one API object. Nothing in the callers
   (overlay.js:350, parser.js:345) keeps a second run from starting while
   the first is suspended, and API.stats is a field of the object
   (api.js:33-40). JavaScript runs each call from one await to the next
   without interruption, so a step here is the code between two awaits. Each
   call keeps, beside the shared stats, the counters of its own events. *)

TwoRunPapers == 1
Calls == 1..2

TwoRunPaperLists ==
    UNION { [1..n -> PaperDomain] : n \in 0..TwoRunPapers }

(* the fetcher's variables other than stats, at rest *)
FetchRest ==
    /\ papers = <<>>
    /\ pc = "idle"
    /\ i = 0
    /\ attempt = 1
    /\ ret = Null
    /\ result = Null
    /\ allCitations = <<>>
    /\ userPaperIds = <<>>
    /\ progress = <<>>
    /\ inflight = <<>>
    /\ output = NoOutput
    /\ waited = 0
    /\ lastGap = -1
    /\ reqCount = <<>>
    /\ backoffs = <<>>
    /\ rets = <<>>
    /\ lastOutcome = NoOutcome
    /\ delivered = <<>>
    /\ exhausted = 0

FetchIdle == FetchRest /\ stats = ZeroStats

(* a call that has not been made yet *)
IdleCall(ps) ==
    [pc |-> "idle", papers |-> ps, i |-> 0, attempt |-> 1, ret |-> Null,
     o |-> NoOutcome, body |-> NoBody, own |-> ZeroStats,
     printed |-> ZeroStats]

TwoRunInit ==
    /\ runs \in [Calls -> { IdleCall(ps) : ps \in TwoRunPaperLists }]
    /\ stats = ZeroStats
    /\ FetchRest
    /\ RunIdle /\ now = ThisYear /\ GapIdle /\ ScoreIdle /\ ParserIdle /\ UiIdle

(* api.js:165-190: _fetchPaperByDOI is called for paper k + 1 of call c, up
   to its first await or its return; s is a set of counters *)
CallPaperStats(c, k, s) ==
    IF c.papers[k + 1].doi = "" THEN Bump(s, "noDOI")
    ELSE Bump(s, "totalRequests")

CallPaper(c, k, a) ==
    IF c.papers[k + 1].doi = ""
    THEN [c EXCEPT !.pc = "resolving", !.i = k, !.attempt = a, !.ret = Null,
                   !.own = CallPaperStats(c, k, c.own)]
    ELSE [c EXCEPT !.pc = "awaitHTTP", !.i = k, !.attempt = a,
                   !.own = CallPaperStats(c, k, c.own)]

(* The continuation of an await on a settled promise is run before any
   timer, response or user event is handled. *)
NoContinuationPending == \A q \in Calls : runs[q].pc # "resolving"

(* api.js:131: _printStats reads this.stats *)
PrintStats(c, s) == [c EXCEPT !.pc = "done", !.printed = s]

TwoRunRest ==
    UNCHANGED <<papers, pc, i, attempt, ret, result, allCitations,
                userPaperIds, progress, inflight, output, history, runVars,
                now, gapVars, scoreVars, parserVars, uiVars>>

(* api.js:49-72: the call is entered: the statistics are reset, then the
   loop runs to the first await, or to the end when there is no paper *)
T_Enter(r) ==
    /\ runs[r].pc = "idle"
    /\ NoContinuationPending
    /\ LET c == [runs[r] EXCEPT !.own = ZeroStats]
       IN  IF Len(c.papers) = 0
           THEN /\ stats' = ZeroStats
                /\ runs' = [runs EXCEPT ![r] = PrintStats(c, ZeroStats)]
           ELSE /\ stats' = CallPaperStats(c, 0, ZeroStats)
                /\ runs' = [runs EXCEPT ![r] = CallPaper(c, 0, 1)]
    /\ TwoRunRest

(* api.js:183-193, 223-234: the request resolves, and the delay is entered,
   or it throws, and the catch block runs *)
T_Respond(r) ==
    /\ runs[r].pc = "awaitHTTP"
    /\ NoContinuationPending
    /\ \E o \in Outcomes :
         LET oc == [threw |-> o.threw, status |-> o.status,
                    msg429 |-> o.msg429]
         IN  IF o.threw
             THEN /\ stats' = HandleError(o, stats).stats
                  /\ runs' = [runs EXCEPT ![r] =
                       [@ EXCEPT !.pc = "resolving", !.o = oc,
                                 !.ret = HandleError(o, stats).ret,
                                 !.own = HandleError(o, @).stats]]
             ELSE /\ stats' = stats
                  /\ runs' = [runs EXCEPT ![r] =
                       [@ EXCEPT !.pc = "sleep", !.o = oc, !.body = o.body]]
    /\ TwoRunRest

(* api.js:193-221: the delay is over; the branch on the status *)
T_AfterSleep(r) ==
    /\ runs[r].pc = "sleep"
    /\ NoContinuationPending
    /\ LET c == runs[r]
           o == [threw |-> FALSE, status |-> c.o.status, msg429 |-> FALSE,
                 body |-> c.body]
       IN  /\ stats' = HandleResponse(o, stats).stats
           /\ runs' = [runs EXCEPT ![r] =
                [c EXCEPT !.pc = "resolving",
                          !.ret = HandleResponse(o, stats).ret,
                          !.own = HandleResponse(o, c.own).stats]]
    /\ TwoRunRest

(* api.js:147-155, 74-96, 61-72, 98-133: _fetchPaperByDOI has returned: the
   wrapper backs off, or resolves, and then the result is collected and the
   loop goes on to the next paper's first await or to the end of the call *)
T_Wrapper(r) ==
    /\ runs[r].pc = "resolving"
    /\ LET c == runs[r]
       IN  IF ShouldRetry(c.ret, c.attempt)
           THEN /\ runs' = [runs EXCEPT ![r] = [c EXCEPT !.pc = "backoff"]]
                /\ stats' = stats
           ELSE IF c.i + 1 < Len(c.papers)
           THEN /\ stats' = CallPaperStats(c, c.i + 1, stats)
                /\ runs' = [runs EXCEPT ![r] = CallPaper(c, c.i + 1, 1)]
           ELSE /\ stats' = stats
                /\ runs' = [runs EXCEPT ![r] = PrintStats(c, stats)]
    /\ TwoRunRest

(* api.js:150-152, 146-147: the back-off is over; the next attempt *)
T_AfterBackoff(r) ==
    /\ runs[r].pc = "backoff"
    /\ NoContinuationPending
    /\ LET c == runs[r]
       IN  /\ stats' = CallPaperStats(c, c.i, stats)
           /\ runs' = [runs EXCEPT ![r] = CallPaper(c, c.i, c.attempt + 1)]
    /\ TwoRunRest

TwoRunNext ==
    \/ \E r \in Calls : T_Enter(r)
    \/ \E r \in Calls : T_Respond(r)
    \/ \E r \in Calls : T_AfterSleep(r)
    \/ \E r \in Calls : T_Wrapper(r)
    \/ \E r \in Calls : T_AfterBackoff(r)

TwoRunSpec == TwoRunInit /\ [][TwoRunNext]_vars

(* C12 as claimed: the counters belong to one run: what a call of
   fetchCitations reports at its end (api.js:131) are the counts of its own
   events, whatever another call does, also one that starts while this one
   is suspended at a request or a delay. *)
C12_CountersBelongToOneRun ==
    \A r \in Calls : runs[r].pc = "done" => runs[r].printed = runs[r].own

----------------------------------------------------------------------------
(* Analyzer.findGaps (parser.js:776-853) by itself: called once on a
   citationData object and options drawn from small sets. *)

MaxCands == 3

CandIds == <<"C1", "C2", "C3", "C4", "C5">>

(* year, citationCount, mentioned_count of a candidate *)
CandAttrs ==
    { <<2009, 1000, 2>>, <<2010, 500, 2>>, <<2010, 199, 2>>,
      <<2012, 200, 3>>, <<2015, 250, 2>>, <<2016, 200, 2>>,
      <<2024, 900, 1>>, <<0, 300, 2>>, <<NaNYear, 300, 2>> }

(* an entry of all_citations as the deduplication leaves it (api.js:104-106) *)
Candidate(k, a) ==
    [paperId |-> CandIds[k], title |-> "t", year |-> a[1],
     citationCount |-> a[2], citedBy |-> <<"p">>, mentioned_count |-> a[3]]

CandLists ==
    UNION { { [k \in 1..n |-> Candidate(k, f[k])] : f \in [1..n -> CandAttrs] }
            : n \in 0..MaxCands }

OwnIdLists == { <<>>, <<"C1">>, <<"P1", "C2">> }

GapOptions ==
    { [minYear |-> y, topN |-> n, minMentions |-> m] :
        y \in {2000, 2010}, n \in {1, 2}, m \in {1, 2} }

GapInit ==
    /\ \E cs \in CandLists, ids \in OwnIdLists :
         gData = [kind |-> "result", all_citations |-> cs,
                  user_paper_ids |-> ids]
    /\ gOpts \in GapOptions
    /\ gSorted = <<>>
    /\ gFull = <<>>
    /\ gOut = <<>>
    /\ gpc = "in"
    /\ now = ThisYear
    /\ FetchIdle /\ RunIdle /\ ScoreIdle /\ RunsIdle /\ ParserIdle /\ UiIdle

(* parser.js:776-853: the call *)
GapCall ==
    /\ gpc = "in"
    /\ gSorted' = FindGapsSorted(gData, gOpts, now)
    /\ gFull' = FindGapsFull(gData, gOpts, now)
    /\ gOut' = FindGaps(gData, gOpts, now)
    /\ gpc' = "out"
    /\ UNCHANGED <<gData, gOpts, fetchVars, runVars, now, scoreVars, runs,
                   parserVars, uiVars>>

GapNext == GapCall

GapSpec == GapInit /\ [][GapNext]_vars

Returned == gpc = "out"

OutIds == { gOut[k].paperId : k \in 1..Len(gOut) }

(* C15: no candidate whose identifier is among the own identifiers of the
   sources appears in the list findGaps returns, whatever its score, year
   or mention count. *)
C15_OwnPapersExcluded ==
    Returned =>
      \A k \in 1..Len(gOut) : ~InSeq(gOut[k].paperId, gData.user_paper_ids)

(* a candidate with an own identifier that passes the other filters has
   been kept out of a list that had room for it *)
C15_Witness ==
    /\ Returned
    /\ Len(gOut) < gOpts.topN
    /\ \E k \in 1..Len(gData.all_citations) :
         LET c == gData.all_citations[k]
         IN  /\ InSeq(c.paperId, gData.user_paper_ids)
             /\ c.year >= gOpts.minYear
             /\ c.mentioned_count >= gOpts.minMentions

(* the year of c is present, a number, and not before minYear *)
YearPasses(c, minYear) ==
    c.year # 0 /\ c.year # NaNYear /\ c.year >= minYear

(* the candidates of the input that pass the three filters, by position *)
Passing ==
    { k \in 1..Len(gData.all_citations) :
        LET c == gData.all_citations[k]
        IN  /\ ~InSeq(c.paperId, gData.user_paper_ids)
            /\ YearPasses(c, gOpts.minYear)
            /\ c.mentioned_count >= gOpts.minMentions }

(* C17: every candidate of the returned list has a year that is present,
   numeric and at least minYear, and a mention count of at least
   minMentions; when no candidate passes the filters, the empty input
   included, the empty list is returned. *)
C17_ReturnedPassFilters ==
    Returned =>
      /\ \A k \in 1..Len(gOut) :
           /\ YearPasses(gOut[k], gOpts.minYear)
           /\ gOut[k].mentioned_count >= gOpts.minMentions
      /\ (Passing = {} => gOut = <<>>)

(* a candidate exactly at both thresholds is returned, and one without a
   year and one below the mention threshold have been dropped *)
C17_Witness ==
    /\ Returned
    /\ \E k \in 1..Len(gOut) :
         /\ gOut[k].year = gOpts.minYear
         /\ gOut[k].mentioned_count = gOpts.minMentions
    /\ \E k \in 1..Len(gData.all_citations) :
         /\ gData.all_citations[k].year = 0
         /\ gData.all_citations[k].paperId \notin OutIds
    /\ \E k \in 1..Len(gData.all_citations) :
         /\ gData.all_citations[k].mentioned_count < gOpts.minMentions
         /\ gData.all_citations[k].paperId \notin OutIds

(* all candidates are filtered out and the list returned is empty *)
C17_WitnessEmpty ==
    /\ Returned
    /\ Len(gData.all_citations) > 0
    /\ Passing = {}
    /\ gOut = <<>>

----------------------------------------------------------------------------
(* Analyzer._calculateScore (parser.js:863-904) by itself: called once on a
   candidate that passed the filters, in a year of the run. *)

ScoreMentions == {1, 2, 3, 5}
ScoreCitations == {0, 1, 99, 199, 250, 499, 500, 501, 1000}
ScoreAges == {-1, 0, 2, 3, 4, 5, 6, 10, 11, 16}
ScoreYears == {ThisYear - 1, ThisYear}

ScoreInit ==
    /\ now \in ScoreYears
    /\ \E m \in ScoreMentions, n \in ScoreCitations, a \in ScoreAges :
         sCit = [paperId |-> "C1", title |-> "t", year |-> now - a,
                 citationCount |-> n, citedBy |-> <<"p">>,
                 mentioned_count |-> m]
    /\ sScore = NoScore
    /\ FetchIdle /\ RunIdle /\ GapIdle /\ RunsIdle /\ ParserIdle /\ UiIdle

(* parser.js:863-904: the call *)
ScoreCall ==
    /\ sScore = NoScore
    /\ sScore' = [kind |-> "score"] @@ CalculateScore(sCit, now)
    /\ UNCHANGED <<sCit, fetchVars, runVars, now, gapVars, runs, parserVars, uiVars>>

ScoreNext == ScoreCall

ScoreSpec == ScoreInit /\ [][ScoreNext]_vars

ScoredNow == sScore.kind = "score"

(* C18: mentionedScore is 10 times the mention count; impactScore is
   citationCount / 100, at most 5; recencyScore is 3, 2, 1, 0 for an age of
   at most 3, at most 5, at most 10, more than 10 years; totalScore is the
   sum of the three. 5 mentions, 1000 citations, this year: 50 + 5 + 3 = 58.
   Scores are in thousandths. *)
C18_ScoreFormula ==
    ScoredNow =>
      LET age == now - sCit.year
      IN  /\ sScore.mentionedScore = 10 * sCit.mentioned_count * Scale
          /\ IF sCit.citationCount >= 500
             THEN sScore.impactScore = 5 * Scale
             ELSE sScore.impactScore * 100 = sCit.citationCount * Scale
          /\ sScore.recencyScore =
               (CASE age <= 3 -> 3 [] age \in 4..5 -> 2 [] age \in 6..10 -> 1
                  [] OTHER -> 0) * Scale
          /\ (age = 3 => sScore.recencyScore = 3 * Scale)
          /\ (age = 5 => sScore.recencyScore = 2 * Scale)
          /\ (age = 10 => sScore.recencyScore = 1 * Scale)
          /\ (age = 11 => sScore.recencyScore = 0)
          /\ sScore.totalScore =
               sScore.mentionedScore + sScore.impactScore
                 + sScore.recencyScore
          /\ (sCit.mentioned_count = 5 /\ sCit.citationCount = 1000
                /\ age = 0)
               => /\ sScore.mentionedScore = 50 * Scale
                  /\ sScore.impactScore = 5 * Scale
                  /\ sScore.recencyScore = 3 * Scale
                  /\ sScore.totalScore = 58 * Scale

(* the example of the claim has been scored *)
C18_Witness ==
    /\ ScoredNow
    /\ sCit.mentioned_count = 5
    /\ sCit.citationCount = 1000
    /\ sCit.year = now
    /\ sScore.totalScore = 58 * Scale

(* a candidate of age exactly 3 with an uncapped, fractional impact *)
C18_WitnessBoundary ==
    /\ ScoredNow
    /\ now - sCit.year = 3
    /\ sCit.citationCount = 199
    /\ sScore.impactScore = 1990
    /\ sScore.recencyScore = 3 * Scale

----------------------------------------------------------------------------
(* Ranking and marking, on the findGaps specification *)

(* the score findGaps gives the candidate at position k of the input *)
ScoreOf(k) == CalculateScore(gData.all_citations[k], now).totalScore

NonIncreasing(recs) ==
    \A a, b \in 1..Len(recs) : a < b => recs[a].totalScore >= recs[b].totalScore

(* C19: the list findGaps returns is sorted by totalScore, highest first,
   has at most topN entries, and holds the topN highest-scoring candidates
   that passed the filters: it holds min(topN, passing) distinct passing
   candidates with their scores, and no passing candidate left out scores
   higher than one that is in. *)
C19_TopNByScore ==
    Returned =>
      /\ NonIncreasing(gOut)
      /\ Len(gOut) <= gOpts.topN
      /\ Len(gOut) = Min(gOpts.topN, Cardinality(Passing))
      /\ \A a, b \in 1..Len(gOut) : gOut[a].paperId = gOut[b].paperId => a = b
      /\ \A k \in 1..Len(gOut) :
           \E j \in Passing :
             /\ gData.all_citations[j].paperId = gOut[k].paperId
             /\ gOut[k].totalScore = ScoreOf(j)
      /\ \A j \in Passing :
           gData.all_citations[j].paperId \notin OutIds
             => \A k \in 1..Len(gOut) : ScoreOf(j) <= gOut[k].totalScore

(* more candidates pass than are returned, the first of the input is left
   out, and the returned ones come in another order than they arrived *)
C19_Witness ==
    /\ Returned
    /\ Cardinality(Passing) > gOpts.topN
    /\ Len(gOut) = 2
    /\ gOut[1].totalScore > gOut[2].totalScore
    /\ 1 \in Passing
    /\ gData.all_citations[1].paperId \notin OutIds
    /\ gOut[1].paperId = gData.all_citations[3].paperId
    /\ gOut[2].paperId = gData.all_citations[2].paperId

(* the window _markEarlyInfluential looks at, and the candidates in it that
   are old and cited enough, by position in the sorted list *)
EarlyWindow == 1..Min(2 * gOpts.topN, Len(gFull))

Qualifying ==
    { k \in EarlyWindow :
        /\ gFull[k].year # NaNYear
        /\ gFull[k].year < 2016
        /\ gFull[k].citationCount >= 200 }

Marked == { k \in 1..Len(gFull) : gFull[k].isEarlyInfluential }

(* C20: marking looks at the first min(2 * topN, len) candidates of the
   sorted list only, and marks min(2, q) of them, q being the number of
   candidates in that window with year < 2016 and citationCount >= 200; the
   marked ones are the oldest of these; no candidate outside the window or
   failing a threshold is marked. The list returned is the head of the
   marked list. *)
C20_OldestTwoInWindowMarked ==
    Returned =>
      /\ NonIncreasing(gFull)
      /\ Marked \subseteq Qualifying
      /\ Cardinality(Marked) = Min(2, Cardinality(Qualifying))
      /\ \A m \in Marked : \A q \in Qualifying \ Marked :
           gFull[m].year <= gFull[q].year
      /\ \A k \in 1..Len(gFull) :
           (gFull[k].year = 2010 /\ gFull[k].citationCount = 199)
             => k \notin Marked
      /\ gOut = SubSeq(gFull, 1, Len(gOut))

(* three candidates qualify in the window, the two oldest are marked, and
   the one left unmarked scores higher than a marked one *)
C20_Witness ==
    /\ Returned
    /\ Cardinality(Qualifying) = 3
    /\ Cardinality(Marked) = 2
    /\ \E q \in Qualifying \ Marked : \E m \in Marked :
         q < m /\ gFull[m].year < gFull[q].year

(* a candidate old and cited enough lies outside the window and is not
   marked, while one that fails a threshold lies inside it *)
C20_WitnessOutsideWindow ==
    /\ Returned
    /\ \E k \in 1..Len(gFull) :
         /\ k \notin EarlyWindow
         /\ gFull[k].year < 2016
         /\ gFull[k].citationCount >= 200
         /\ ~gFull[k].isEarlyInfluential
    /\ \E k \in EarlyWindow : k \notin Qualifying

(* a candidate of 2010 with 199 citations lies inside the window, beside
   one that is marked *)
C20_Witness199 ==
    /\ Returned
    /\ \E k \in EarlyWindow :
         gFull[k].year = 2010 /\ gFull[k].citationCount = 199
    /\ Marked # {}

----------------------------------------------------------------------------
(* Marking as a frame: the list before and after _markEarlyInfluential *)

(* C21: marking changes nothing but the isEarlyInfluential flag: the list
   after marking has the candidates of the list before it at the same
   positions, each with the same totalScore and sub-scores and every other
   field. *)
C21_MarkingChangesFlagOnly ==
    Returned =>
      /\ Len(gFull) = Len(gSorted)
      /\ \A k \in 1..Len(gFull) :
           /\ gFull[k].paperId = gSorted[k].paperId
           /\ gFull[k].totalScore = gSorted[k].totalScore
           /\ gFull[k].mentionedScore = gSorted[k].mentionedScore
           /\ gFull[k].impactScore = gSorted[k].impactScore
           /\ gFull[k].recencyScore = gSorted[k].recencyScore
           /\ [gFull[k] EXCEPT !.isEarlyInfluential = FALSE] = gSorted[k]

(* a candidate has been marked that is neither first nor last of a list of
   three *)
C21_Witness ==
    /\ Returned
    /\ Len(gFull) = 3
    /\ gFull[2].isEarlyInfluential
    /\ ~gFull[1].isEarlyInfluential
    /\ ~gSorted[2].isEarlyInfluential

----------------------------------------------------------------------------
(* End to end on the run: three sources, each citing the two shared
   candidates and one candidate of its own *)

ThreeSharingSources ==
    /\ Finished
    /\ Len(papers) = 3
    /\ [k \in 1..Len(allCitations) |-> allCitations[k].paperId]
         = <<"X1", "X2", OnlyIds[1], "X1", "X2", OnlyIds[2],
             "X1", "X2", OnlyIds[3]>>

(* the candidates of the aggregation with n mentions, by position *)
WithMentions(n) ==
    { k \in 1..Len(output.all_citations) :
        output.all_citations[k].mentioned_count = n }

(* C22 as claimed: the aggregation gives exactly 4 candidates with mention
   counts 3, 3, 1, 1, and minMentions = 2 leaves a ranked list of 2. *)
C22_FourCandidates ==
    ThreeSharingSources =>
      /\ Len(output.all_citations) = 4
      /\ Cardinality(WithMentions(3)) = 2
      /\ Cardinality(WithMentions(1)) = 2
      /\ Len(runOutcome.recs) = 2

(* C22 as the code has it: two shared candidates and one candidate of each
   of the three sources are 5 candidates, with mention counts 3, 3, 1, 1, 1;
   minMentions = 2 leaves a ranked list of exactly the 2 shared ones. *)
C22_FiveCandidates ==
    ThreeSharingSources =>
      /\ Len(output.all_citations) = 5
      /\ Cardinality(WithMentions(3)) = 2
      /\ Cardinality(WithMentions(1)) = 3
      /\ runOutcome.kind = "recommendations"
      /\ Len(runOutcome.recs) = 2
      /\ { runOutcome.recs[k].paperId : k \in 1..2 } = {"X1", "X2"}
      /\ \A k \in 1..2 : runOutcome.recs[k].mentioned_count = 3

(* the run of the scenario has ended *)
C22_Witness ==
    /\ ThreeSharingSources
    /\ Len(delivered) = 9
    /\ runOutcome.kind = "recommendations"

----------------------------------------------------------------------------
(* Parser.determineSamplingStrategy (parser.js:241-273) by itself: called
   once on a number of papers with DOI. *)

MaxEligible == 130

NoSamplingUpTo == 30
AdvisoryUpTo == 100
StrategySampleSize == 50
SampledMinutes == 2

(* Math.ceil(a / b) for a >= 0, b > 0 *)
CeilDiv(a, b) == (a + b - 1) \div b

(* Math.ceil(n * 1.5 / 60) || 1, parser.js:248: n * 1.5 / 60 is n / 40 *)
EstimatedTime(n) ==
    IF CeilDiv(n * 15, 600) = 0 THEN 1 ELSE CeilDiv(n * 15, 600)

(* the second threshold taken as exclusive *)
DetermineSamplingStrategyExclusive(n) ==
    IF n <= NoSamplingUpTo
    THEN [sampleSize |-> 0, shouldSample |-> FALSE, warningLevel |-> "none",
          estimatedTime |-> EstimatedTime(n), suggestion |-> FALSE]
    ELSE IF n < AdvisoryUpTo
    THEN [sampleSize |-> StrategySampleSize, shouldSample |-> TRUE,
          warningLevel |-> "info", estimatedTime |-> SampledMinutes,
          suggestion |-> FALSE]
    ELSE [sampleSize |-> StrategySampleSize, shouldSample |-> TRUE,
          warningLevel |-> "warning", estimatedTime |-> SampledMinutes,
          suggestion |-> TRUE]

(* parser.js:241-273. sampleSize 0 stands for null; suggestion says whether
   a suggestion text is given. *)
DetermineSamplingStrategy(n) ==
    IF n <= NoSamplingUpTo
    THEN [sampleSize |-> 0, shouldSample |-> FALSE, warningLevel |-> "none",
          estimatedTime |-> EstimatedTime(n), suggestion |-> FALSE]
    ELSE IF n <= AdvisoryUpTo
    THEN [sampleSize |-> StrategySampleSize, shouldSample |-> TRUE,
          warningLevel |-> "info", estimatedTime |-> SampledMinutes,
          suggestion |-> FALSE]
    ELSE [sampleSize |-> StrategySampleSize, shouldSample |-> TRUE,
          warningLevel |-> "warning", estimatedTime |-> SampledMinutes,
          suggestion |-> TRUE]

StrategyRest ==
    UNCHANGED <<fetchVars, runVars, now, gapVars, scoreVars, runs, uiVars, smp, prs,
                ovl>>

StrategyInit ==
    /\ \E n \in 0..MaxEligible : strat = [kind |-> "in", n |-> n]
    /\ smp = NoData /\ prs = NoData /\ ovl = NoData
    /\ now = ThisYear
    /\ FetchIdle /\ RunIdle /\ GapIdle /\ ScoreIdle /\ RunsIdle /\ UiIdle

(* parser.js:241-273: the call *)
StrategyCall ==
    /\ strat.kind = "in"
    /\ strat' = [kind |-> "out", n |-> strat.n,
                 strategy |-> DetermineSamplingStrategy(strat.n)]
    /\ StrategyRest

StrategyNext == StrategyCall

StrategySpec == StrategyInit /\ [][StrategyNext]_vars

(* C23: determineSamplingStrategy decides for every n >= 0: up to 30, no
   sampling, and max(1, ceil(n * 1.5 / 60)) minutes; from 31 to 100, a
   sample of 50, advisory, 2 minutes; above 100, a sample of 50, mandatory,
   2 minutes, with a suggestion to split. 30, 31, 100, 101 fall as said. *)
C23_StrategyByCount ==
    strat.kind = "out" =>
      LET n == strat.n
          d == strat.strategy
          minutes == CHOOSE m \in 0..MaxEligible :
                       m * 600 >= n * 15 /\ (m = 0 \/ (m - 1) * 600 < n * 15)
      IN  /\ n <= 30 =>
                /\ ~d.shouldSample /\ d.sampleSize = 0
                /\ d.warningLevel = "none"
                /\ d.estimatedTime = (IF minutes < 1 THEN 1 ELSE minutes)
                /\ ~d.suggestion
          /\ n \in 31..100 =>
                /\ d.shouldSample /\ d.sampleSize = 50
                /\ d.warningLevel = "info"
                /\ d.estimatedTime = 2
                /\ ~d.suggestion
          /\ n > 100 =>
                /\ d.shouldSample /\ d.sampleSize = 50
                /\ d.warningLevel = "warning"
                /\ d.estimatedTime = 2
                /\ d.suggestion
          /\ n = 30 => ~d.shouldSample
          /\ n = 31 => d.warningLevel = "info"
          /\ n = 100 => d.warningLevel = "info"
          /\ n = 101 => d.warningLevel = "warning"

(* the boundary value 100 has been decided as advisory *)
C23_Witness ==
    /\ strat.kind = "out"
    /\ strat.n = 100
    /\ strat.strategy.sampleSize = 50
    /\ strat.strategy.warningLevel = "info"

----------------------------------------------------------------------------
(* Parser._randomSample (parser.js:150-164) by itself: called twice, one
   call after the other, on the same array, sample size and seed. *)

MaxSampleLen == 4

Multiplier == 9301
Increment == 49297
Modulus == 233280

SampleElems == {"a", "b"}
SampleSeeds == {0, 1, 7, 42, 4242, 233279, 233285}

SampleArrays == UNION { [1..n -> SampleElems] : n \in 0..MaxSampleLen }

(* parser.js:153: randomSeed = (randomSeed * 9301 + 49297) % 233280.
   JavaScript's numbers hold the product exactly; here it is taken in two
   parts, so that no intermediate value leaves the 32-bit integers of the
   checker. *)
NextRandom(state) ==
    LET s == state % Modulus
        high == ((s * (Multiplier \div 100)) % Modulus) * 100
        low == s * (Multiplier % 100)
    IN  (high + low + Increment) % Modulus

(* parser.js:160: Math.floor(seededRandom() * m), with the state the
   generator has just moved to; state / 233280 is taken exactly *)
FloorScaled(state, m) == (state * m) \div Modulus

Swap(seq, a, b) == [seq EXCEPT ![a] = seq[b], ![b] = seq[a]]

(* parser.js:158-162: the loop from step n on. pos has, for each place of
   result, the place of the input its element came from; i and j are
   0-based as in the code. st.js has one entry for each step done, n of
   them. *)
RECURSIVE ShuffleFrom(_, _, _)
ShuffleFrom(st, n, sampleSize) ==
    IF Len(st.js) >= sampleSize THEN st
    ELSE LET state == NextRandom(st.state)
             j == n + FloorScaled(state, Len(st.result) - n)
         IN  ShuffleFrom([state |-> state,
                          result |-> Swap(st.result, n + 1, j + 1),
                          pos |-> Swap(st.pos, n + 1, j + 1),
                          js |-> Append(st.js, j),
                          states |-> Append(st.states, state)],
                         n + 1, sampleSize)

(* the generator goes on from where the previous call left it *)
RandomSampleCarrying(array, sampleSize, seed, carried) ==
    LET st == ShuffleFrom([state |-> IF carried = -1 THEN seed ELSE carried,
                           result |-> array,
                           pos |-> [k \in 1..Len(array) |-> k],
                           js |-> <<>>, states |-> <<>>], 0, sampleSize)
    IN  [out |-> SubSeq(st.result, 1, sampleSize),
         pos |-> SubSeq(st.pos, 1, sampleSize),
         js |-> st.js, states |-> st.states, state |-> st.state,
         array |-> array]

(* the array is shuffled in place: result = array *)
RandomSampleInPlace(array, sampleSize, seed, carried) ==
    LET st == ShuffleFrom([state |-> seed, result |-> array,
                           pos |-> [k \in 1..Len(array) |-> k],
                           js |-> <<>>, states |-> <<>>], 0, sampleSize)
    IN  [out |-> SubSeq(st.result, 1, sampleSize),
         pos |-> SubSeq(st.pos, 1, sampleSize),
         js |-> st.js, states |-> st.states, state |-> st.state,
         array |-> st.result]

(* parser.js:150-164: _randomSample. carried is the state the generator was
   left in by the call before, -1 when there was none: randomSeed is a local
   of the call and starts from seed. out is the value returned, array the
   caller's array after the call. *)
RandomSample(array, sampleSize, seed, carried) ==
    LET st == ShuffleFrom([state |-> seed, result |-> array,
                           pos |-> [k \in 1..Len(array) |-> k],
                           js |-> <<>>, states |-> <<>>], 0, sampleSize)
    IN  [out |-> SubSeq(st.result, 1, sampleSize),
         pos |-> SubSeq(st.pos, 1, sampleSize),
         js |-> st.js, states |-> st.states, state |-> st.state,
         array |-> array]

SampleRest ==
    UNCHANGED <<fetchVars, runVars, now, gapVars, scoreVars, runs, uiVars, strat, prs,
                ovl>>

SampleInit ==
    /\ \E a \in SampleArrays, seed \in SampleSeeds :
         \E k \in 0..Len(a) :
           smp = [kind |-> "in", given |-> a, array |-> a, sampleSize |-> k,
                  seed |-> seed, carried |-> -1]
    /\ strat = NoData /\ prs = NoData /\ ovl = NoData
    /\ now = ThisYear
    /\ FetchIdle /\ RunIdle /\ GapIdle /\ ScoreIdle /\ RunsIdle /\ UiIdle

(* the first call *)
SampleCall ==
    /\ smp.kind = "in"
    /\ \E r \in {RandomSample(smp.array, smp.sampleSize, smp.seed,
                              smp.carried)} :
           smp' = [kind |-> "once", given |-> smp.given, array |-> r.array,
                   sampleSize |-> smp.sampleSize, seed |-> smp.seed,
                   carried |-> r.state, first |-> r]
    /\ SampleRest

(* the second call, with the arguments of the first *)
SampleAgain ==
    /\ smp.kind = "once"
    /\ \E r \in {RandomSample(smp.given, smp.sampleSize, smp.seed,
                              smp.carried)} :
           smp' = [kind |-> "twice", given |-> smp.given, array |-> smp.array,
                   sampleSize |-> smp.sampleSize, seed |-> smp.seed,
                   carried |-> r.state, first |-> smp.first, second |-> r]
    /\ SampleRest

SampleNext == SampleCall \/ SampleAgain

SampleSpec == SampleInit /\ [][SampleNext]_vars

(* C24: seeded sampling is deterministic: two calls with the same list,
   sample size and seed return the same output; in each call the state of
   the generator starts from the seed and moves by
   state = (state * 9301 + 49297) mod 233280, once for each element drawn. *)
C24_SeededSamplingDeterministic ==
    smp.kind = "twice" =>
      /\ smp.second.out = smp.first.out
      /\ \A c \in {smp.first, smp.second} :
           /\ Len(c.states) = smp.sampleSize
           /\ \A n \in 1..Len(c.states) :
                LET prev == (IF n = 1 THEN smp.seed ELSE c.states[n - 1])
                              % 233280
                    \* prev * 9301 as prev * 9000 + prev * 301
                    prod == (((prev * 9000) % 233280)
                               + ((prev * 301) % 233280)) % 233280
                IN  c.states[n] = (prod + 49297) % 233280

(* two calls that drew elements, shuffled the list, and left the generator
   in a state other than the seed *)
C24_Witness ==
    /\ smp.kind = "twice"
    /\ smp.sampleSize >= 2
    /\ smp.first.out # SubSeq(smp.given, 1, smp.sampleSize)
    /\ smp.first.state # smp.seed
    /\ smp.second.out = smp.first.out

(* C30: for every list, every sample size k from 0 to its length and every
   non-negative integer seed, the sampler returns exactly k elements, taken
   from k pairwise distinct places of the input; every swap index j is at
   least i and at most length - 1; the input list is as it was. *)
C30_SampleOfDistinctPlaces ==
    smp.kind \in {"once", "twice"} =>
      LET r == smp.first
      IN  /\ Len(r.out) = smp.sampleSize
          /\ \A a, b \in 1..Len(r.pos) : r.pos[a] = r.pos[b] => a = b
          /\ \A a \in 1..Len(r.out) :
               /\ r.pos[a] \in 1..Len(smp.given)
               /\ r.out[a] = smp.given[r.pos[a]]
          /\ Len(r.js) = smp.sampleSize
          /\ \A n \in 1..Len(r.js) :
               n - 1 <= r.js[n] /\ r.js[n] <= Len(smp.given) - 1
          /\ smp.array = smp.given

(* the whole list has been drawn, in another order, some swap reaching the
   last place *)
C30_Witness ==
    /\ smp.kind = "once"
    /\ smp.sampleSize = Len(smp.given)
    /\ smp.sampleSize >= 3
    /\ smp.first.out # smp.given
    /\ \E n \in 1..Len(smp.first.js) : smp.first.js[n] = Len(smp.given) - 1
    /\ \E n \in 1..Len(smp.first.js) : smp.first.js[n] = n - 1

----------------------------------------------------------------------------
(* Parser.parseZoteroLibrary (parser.js:21-80) by itself: called once on the
   items of a collection and a sample size. An item is known by its key. *)

MaxItems == 3

DefaultSeed == 42

validTypes ==
    {"journalArticle", "book", "bookSection", "conferencePaper", "preprint"}

ItemKeys == <<"K1", "K2", "K3", "K4", "K5">>

(* itemType and DOI field of an item; " " is a DOI field of blanks *)
ItemKinds ==
    { <<t, "">> : t \in validTypes \cup {"webpage", "attachment"} }
    \cup { <<"journalArticle", "10.1/x">>, <<"journalArticle", " ">> }

Item(k, kind) == [key |-> ItemKeys[k], itemType |-> kind[1], DOI |-> kind[2]]

ItemLists ==
    UNION { { [k \in 1..n |-> Item(k, f[k])] : f \in [1..n -> ItemKinds] }
            : n \in 0..MaxItems }

(* doi.trim() *)
Trim(d) == IF d = " " THEN "" ELSE d

(* parser.js:86-137: _extractPaperInfo, the fields used further on *)
ExtractPaperInfo(item) ==
    [id |-> item.key, title |-> <<"t">>, doi |-> Trim(item.DOI),
     type |-> item.itemType, sid |-> item.key]

(* every item counts as academic *)
IsAcademicAny(item) == TRUE

(* parser.js:56: validTypes.has(item.itemType) *)
IsAcademic(item) == item.itemType \in validTypes

(* parser.js:21-80. sampleSize 0 stands for null. *)
ParseZoteroLibrary(allItems, sampleSize, randomSeed) ==
    LET items == SelectSeq(allItems, IsAcademic)
        sampled ==
          IF sampleSize # 0 /\ sampleSize < Len(items)
          THEN RandomSample(items, sampleSize, randomSeed, -1).out
          ELSE items
    IN  IF Len(items) = 0 THEN <<>>
        ELSE [k \in 1..Len(sampled) |-> ExtractPaperInfo(sampled[k])]

ParseRest ==
    UNCHANGED <<fetchVars, runVars, now, gapVars, scoreVars, runs, uiVars, strat, smp,
                ovl>>

ParseInit ==
    /\ \E items \in ItemLists, n \in 0..MaxItems :
         prs = [kind |-> "in", items |-> items, sampleSize |-> n]
    /\ strat = NoData /\ smp = NoData /\ ovl = NoData
    /\ now = ThisYear
    /\ FetchIdle /\ RunIdle /\ GapIdle /\ ScoreIdle /\ RunsIdle /\ UiIdle

(* parser.js:21-80: the call *)
ParseCall ==
    /\ prs.kind = "in"
    /\ \E ps \in {ParseZoteroLibrary(prs.items, prs.sampleSize, DefaultSeed)} :
         prs' = [kind |-> "out", items |-> prs.items,
                 sampleSize |-> prs.sampleSize, papers |-> ps]
    /\ ParseRest

ParseNext == ParseCall

ParseSpec == ParseInit /\ [][ParseNext]_vars

(* C25: the papers parseZoteroLibrary returns are papers of distinct items
   of the input, each of a type in the allowlist journalArticle, book,
   bookSection, conferencePaper, preprint; an input that is empty or has no
   item of these types gives the empty result. *)
C25_ParsedAreAcademicItems ==
    prs.kind = "out" =>
      /\ \A a \in 1..Len(prs.papers) :
           /\ \E k \in 1..Len(prs.items) :
                /\ prs.items[k].key = prs.papers[a].id
                /\ prs.items[k].itemType = prs.papers[a].type
           /\ prs.papers[a].type \in
                {"journalArticle", "book", "bookSection", "conferencePaper",
                 "preprint"}
      /\ \A a, b \in 1..Len(prs.papers) :
           prs.papers[a].id = prs.papers[b].id => a = b
      /\ (\A k \in 1..Len(prs.items) :
            prs.items[k].itemType \in {"webpage", "attachment"})
           => prs.papers = <<>>

(* an item of another type has been dropped, and the papers left have been
   sampled *)
C25_Witness ==
    /\ prs.kind = "out"
    /\ Len(prs.items) = 3
    /\ \E k \in 1..3 : prs.items[k].itemType = "webpage"
    /\ Len(prs.papers) = 1
    /\ prs.sampleSize = 1
    /\ prs.papers[1].id # prs.items[1].key
    /\ prs.items[1].itemType = "book"

(* nothing but items of other types: the empty result *)
C25_WitnessEmpty ==
    /\ prs.kind = "out"
    /\ Len(prs.items) = 2
    /\ prs.papers = <<>>

----------------------------------------------------------------------------
(* LitGapOverlay.analyzeCollection (overlay.js:215-350) up to the call of
   API.fetchCitations in LitGapMain.run (parser.js:304-353): the count that
   the confirmation dialog announces, the user's answer, the parse with the
   decided sample size and the papers handed to the fetcher. *)

MaxLibrary == 52

LibraryShapes == {"allDOI", "thirdNoDOI", "blankFirst", "webFirst"}

(* the itemType and DOI field of item k of a library of a shape *)
LibraryKind(shape, k) ==
    CASE shape = "thirdNoDOI" /\ k % 3 = 0 -> <<"journalArticle", "">>
      [] shape = "blankFirst" /\ k = 1 -> <<"journalArticle", " ">>
      [] shape = "webFirst" /\ k = 1 -> <<"webpage", "">>
      [] OTHER -> <<"journalArticle", "10.1/x">>

Library(shape, n) ==
    [k \in 1..n |->
       [key |-> k, itemType |-> LibraryKind(shape, k)[1],
        DOI |-> LibraryKind(shape, k)[2]]]

(* overlay.js:239-241: item.getField('DOI') as a condition *)
HasDOIField(item) == item.DOI # ""

(* parser.js:329: p.doi && p.doi.trim() *)
PaperHasDOI(p) == p.doi # "" /\ Trim(p.doi) # ""

OverlayRest ==
    UNCHANGED <<fetchVars, runVars, now, gapVars, scoreVars, runs, uiVars, strat, smp,
                prs>>

OverlayInit ==
    /\ \E shape \in LibraryShapes, n \in 0..MaxLibrary :
         ovl = [pc |-> "menu", items |-> Library(shape, n)]
    /\ strat = NoData /\ smp = NoData /\ prs = NoData
    /\ now = ThisYear
    /\ FetchIdle /\ RunIdle /\ GapIdle /\ ScoreIdle /\ RunsIdle /\ UiIdle

(* overlay.js:229-317: the counts, the two alerts, the strategy and the
   dialog with its "Will process" line *)
OverlayAnnounce ==
    /\ ovl.pc = "menu"
    /\ LET academicItems == SelectSeq(ovl.items, IsAcademic)
           withDOI == Len(SelectSeq(academicItems, HasDOIField))
           strategy == DetermineSamplingStrategy(withDOI)
           toProcess == IF strategy.sampleSize # 0 THEN strategy.sampleSize
                        ELSE withDOI
       IN  IF Len(academicItems) = 0
           THEN ovl' = [pc |-> "alertNoPapers", items |-> ovl.items]
           ELSE IF withDOI = 0
           THEN ovl' = [pc |-> "alertNoDOI", items |-> ovl.items]
           ELSE ovl' = [pc |-> "dialog", items |-> ovl.items,
                        withDOI |-> withDOI, strategy |-> strategy,
                        toProcess |-> toProcess]
    /\ OverlayRest

(* overlay.js:317-350 and parser.js:304-353: the answer to the dialog, the
   parse and the step of LitGapMain.run that hands papersWithDOI to
   fetchCitations *)
OverlayAnswer(confirmed) ==
    /\ ovl.pc = "dialog"
    /\ LET parsed == ParseZoteroLibrary(ovl.items, ovl.strategy.sampleSize,
                                        DefaultSeed)
           papersWithDOI == SelectSeq(parsed, PaperHasDOI)
       IN  IF ~confirmed
           THEN ovl' = [ovl EXCEPT !.pc = "cancelled"]
           ELSE IF Len(parsed) = 0
           THEN ovl' = [ovl EXCEPT !.pc = "errorNoPapers"]
           ELSE IF Len(papersWithDOI) = 0
           THEN ovl' = [ovl EXCEPT !.pc = "errorNoDOI"]
           ELSE \E handed \in {papersWithDOI} :
                  ovl' = [pc |-> "fetching", items |-> ovl.items,
                          withDOI |-> ovl.withDOI,
                          strategy |-> ovl.strategy,
                          toProcess |-> ovl.toProcess, handed |-> handed]
    /\ OverlayRest

OverlayNext ==
    \/ OverlayAnnounce
    \/ \E confirmed \in BOOLEAN : OverlayAnswer(confirmed)

OverlaySpec == OverlayInit /\ [][OverlayNext]_vars

(* C26: the number the dialog announces as "Will process" is the number of
   papers handed to the citation fetcher: the sample size 50 when sampling is
   decided, the number of papers with a DOI otherwise. *)
C26_AnnouncedIsFetched ==
    ovl.pc = "fetching" =>
      /\ Len(ovl.handed) = ovl.toProcess
      /\ ovl.strategy.shouldSample => Len(ovl.handed) = 50
      /\ ~ovl.strategy.shouldSample => Len(ovl.handed) = ovl.withDOI

(* sampling decided and the announced number handed over *)
C26_SeenSampledAsAnnounced ==
    /\ ovl.pc = "fetching"
    /\ ovl.strategy.shouldSample
    /\ Len(ovl.handed) = 50
    /\ Len(ovl.items) > 50

----------------------------------------------------------------------------
(* The weight of the mention count in the ranking, under GapSpec. *)

(* C27: of two candidates findGaps has scored, the one with the strictly
   larger mention count has the strictly larger totalScore and stands before
   the other, in the ranked list and in the list returned: impact and recency
   together stay below the ten points of one mention. *)
C27_MentionsDominate ==
    Returned =>
      /\ \A a, b \in 1..Len(gFull) :
           gFull[a].mentioned_count > gFull[b].mentioned_count =>
             /\ gFull[a].totalScore > gFull[b].totalScore
             /\ a < b
      /\ \A a, b \in 1..Len(gOut) :
           gOut[a].mentioned_count > gOut[b].mentioned_count =>
             /\ gOut[a].totalScore > gOut[b].totalScore
             /\ a < b
      /\ \A a \in 1..Len(gFull) :
           gFull[a].totalScore - gFull[a].mentioned_count * 10 * Scale
             \in 0..(8 * Scale)

(* a candidate with one mention and the highest impact and recency stands
   behind a candidate with two mentions and less of both *)
C27_Witness ==
    /\ Returned
    /\ Len(gOut) = 2
    /\ gOut[1].mentioned_count = 2
    /\ gOut[2].mentioned_count = 1
    /\ gOut[1].citationCount < gOut[2].citationCount
    /\ gOut[1].recencyScore < gOut[2].recencyScore
    /\ gOut[2].totalScore - gOut[2].mentionedScore = 8 * Scale
    /\ gData.all_citations[1].paperId = gOut[2].paperId

----------------------------------------------------------------------------
(* Analyzer.findGaps on lists long enough for the marking window of
   topN * 2 candidates (parser.js:833, 915) to reach past the topN that are
   returned (parser.js:836). *)

MaxWide == 4

(* year, citationCount, mentioned_count *)
WideAttrs ==
    { <<2015, 250, 3>>, <<2010, 500, 2>>, <<2012, 200, 2>>,
      <<2020, 10, 3>>, <<2016, 200, 2>> }

WideLists ==
    UNION { { [k \in 1..n |-> Candidate(k, f[k])] : f \in [1..n -> WideAttrs] }
            : n \in 0..MaxWide }

WideGapInit ==
    /\ \E cs \in WideLists :
         gData = [kind |-> "result", all_citations |-> cs,
                  user_paper_ids |-> <<"P1">>]
    /\ \E n \in {1, 2}, m \in {RunMinMentions, RunMinMentions + 1} :
         gOpts = [minYear |-> RunMinYear, topN |-> n, minMentions |-> m]
    /\ gSorted = <<>>
    /\ gFull = <<>>
    /\ gOut = <<>>
    /\ gpc = "in"
    /\ now = ThisYear
    /\ FetchIdle /\ RunIdle /\ ScoreIdle /\ RunsIdle /\ ParserIdle /\ UiIdle

WideGapSpec == WideGapInit /\ [][GapNext]_vars

(* C28: when the list findGaps returns holds a candidate with year < 2016
   and citationCount >= 200, some entry of the returned list has
   isEarlyInfluential = true. *)
C28_FlagSurvivesTruncation ==
    Returned =>
      ((\E k \in 1..Len(gOut) :
          /\ ~ParseInt(gOut[k].year).nan
          /\ ParseInt(gOut[k].year).v < 2016
          /\ gOut[k].citationCount >= 200)
       => \E k \in 1..Len(gOut) : gOut[k].isEarlyInfluential)

(* both marks lie behind the cut, on candidates that are not returned *)
C28_SeenMarksCutOff ==
    /\ Returned
    /\ Len(gFull) = 4
    /\ Len(gOut) = 2
    /\ gFull[3].isEarlyInfluential /\ gFull[4].isEarlyInfluential
    /\ IsEarly(gOut[1])
    /\ ~gOut[1].isEarlyInfluential /\ ~gOut[2].isEarlyInfluential

----------------------------------------------------------------------------
(* The request counters of the fetcher, under Spec. *)

(* C29: every request issued increments exactly one of the outcome
   counters: whenever no request is waiting for its response,
   totalRequests = successful + failed + notFound + rateLimited. *)
C29_OneOutcomePerRequest ==
    pc # "awaitHTTP" =>
      stats.totalRequests =
        stats.successful + stats.failed + stats.notFound + stats.rateLimited

(* one request, counted as successful and as failed *)
C29_SeenCountedTwice ==
    /\ Done
    /\ stats.totalRequests = 1
    /\ stats.successful = 1
    /\ stats.failed = 1

----------------------------------------------------------------------------
(* The plugin's life cycle and user interface. Each part below has its own
   specification; the variables of the other parts stay at rest. *)

coreVars == <<fetchVars, runVars, now, gapVars, scoreVars, runs, parserVars>>

CoreIdle ==
    /\ FetchIdle /\ RunIdle /\ now = ThisYear /\ GapIdle /\ ScoreIdle
    /\ RunsIdle /\ ParserIdle

----------------------------------------------------------------------------
(* bootstrap.js:98-303: startup, LitGap.init and LitGap.loadModules. What
   loadSubScript does with a file is an input: the file defines its module,
   it runs without defining it, or loadSubScript throws. *)

moduleFiles ==
    <<"Parser", "API", "Analyzer", "Reporter",
      "AIClient", "PromptBuilder", "KGMAnalyzer", "KGMReporter">>

v1Modules == {1, 2, 3, 4}
v2Modules == {5, 6, 7, 8}

LoadOutcomes == {"defines", "silent", "throws"}

(* bootstrap.js:131-199: loadModules; TRUE when it throws *)
LoadModulesThrows(loads) ==
    \/ \E m \in 1..Len(moduleFiles) : loads[m] = "throws"
    \/ \E m \in v1Modules : loads[m] # "defines"

BootRest == UNCHANGED <<coreVars, menu, pui, kgm, don, pref>>

BootInit ==
    /\ \E loads \in [1..Len(moduleFiles) -> LoadOutcomes],
          overlay \in {"defines", "throws"} :
         boot = [pc |-> "startup", loads |-> loads, overlay |-> overlay,
                 initialized |-> FALSE, overlayLoaded |-> FALSE,
                 mainLoaded |-> FALSE, logged |-> {}]
    /\ menu = NoData /\ pui = NoData /\ kgm = NoData /\ don = NoData
    /\ pref = NoData
    /\ CoreIdle

(* bootstrap.js:211-226 with 98-124: startup up to the end of
   await LitGap.init(); an error of init leaves startup *)
BootInitialize ==
    /\ boot.pc = "startup"
    /\ IF LoadModulesThrows(boot.loads)
       THEN boot' = [boot EXCEPT !.pc = "aborted"]
       ELSE boot' = [boot EXCEPT
                       !.pc = "initialized",
                       !.initialized = TRUE,
                       !.logged = { m \in v2Modules :
                                      boot.loads[m] # "defines" }]
    /\ BootRest

(* bootstrap.js:228-303: the overlay, ProgressUI, main.js and kgmMain.js
   are loaded, each in its own try *)
BootLoadUI ==
    /\ boot.pc = "initialized"
    /\ boot' = [boot EXCEPT !.pc = "started",
                            !.overlayLoaded = (boot.overlay = "defines"),
                            !.mainLoaded = TRUE]
    /\ BootRest

BootNext == BootInitialize \/ BootLoadUI

BootSpec == BootInit /\ [][BootNext]_vars

(* C31: a KGM module that fails to load does not abort startup: with the
   four core modules loaded, startup is not left, the failure is logged,
   LitGap becomes initialized and the overlay and the Feature 1 orchestrator
   are loaded; startup is aborted only when a core module is missing. *)
C31_KGMFailureNotFatal ==
    /\ boot.pc = "aborted" =>
         \E m \in v1Modules : boot.loads[m] # "defines"
    /\ (boot.pc = "started" /\ boot.overlay = "defines") =>
         boot.initialized /\ boot.overlayLoaded /\ boot.mainLoaded

(* a KGM file that defines nothing is only logged *)
C31_SeenKGMOnlyLogged ==
    /\ boot.pc = "started"
    /\ boot.logged = {7}
    /\ boot.initialized

----------------------------------------------------------------------------
(* The collection menu: LitGapOverlay.init, addMenuItem, _insertMenuItems
   and unload (overlay.js:30-172, 411-445) and shutdown
   (bootstrap.js:318-328), after a startup that initialized LitGap. The menu
   is the sequence of the ids of its elements. *)

MaxCalls == 2
MaxPopups == 2

(* overlay.js:121-122, 428-429 *)
CleanupIds ==
    <<"litgap-separator", "litgap-analyze", "litgap-reset-prefs",
      "litgap-kgm-menuitem", "litgap-reset-separator">>

(* overlay.js:127-167: the elements appended, in this order *)
InsertedIds ==
    <<"litgap-separator", "litgap-analyze", "litgap-kgm-menuitem",
      "litgap-reset-prefs">>

(* ids the v1.x overlay left in the menu *)
LeftoverIds ==
    {"litgap-separator", "litgap-analyze", "litgap-reset-prefs",
     "litgap-reset-separator"}

LeftoverMenus ==
    { <<"zotero-item">> \o m :
        m \in UNION { { f \in [1..n -> LeftoverIds] :
                          \A a, b \in 1..n : f[a] = f[b] => a = b }
                      : n \in 0..2 } }

(* doc.getElementById(id) finds the first element with the id; el.remove() *)
RemoveById(items, id) ==
    IF \E k \in 1..Len(items) : items[k] = id
    THEN LET k == CHOOSE k \in 1..Len(items) :
                    /\ items[k] = id
                    /\ \A h \in 1..(k - 1) : items[h] # id
         IN  SubSeq(items, 1, k - 1) \o SubSeq(items, k + 1, Len(items))
    ELSE items

RECURSIVE RemoveAll(_, _)
RemoveAll(items, ids) ==
    IF ids = <<>> THEN items
    ELSE RemoveAll(RemoveById(items, Head(ids)), Tail(ids))

(* the elements are appended without the sentinel check and the cleanup *)
InsertMenuItemsAppendOnly(items) == items \o InsertedIds

(* overlay.js:112-172: _insertMenuItems *)
InsertMenuItems(items) ==
    IF InSeq("litgap-kgm-menuitem", items) THEN items
    ELSE RemoveAll(items, CleanupIds) \o InsertedIds

(* overlay.js:52-97: addMenuItem, on the state m *)
AddMenuItem(m) ==
    IF ~m.paneReady \/ ~m.menuExists
    THEN [m EXCEPT !.timers = @ + 1]
    ELSE [m EXCEPT !.stored = TRUE,
                   !.listeners = @ + 1,
                   !.items = InsertMenuItems(m.items),
                   !.live = TRUE]

(* overlay.js:411-445: unload, on the state m. removeEventListener takes
   off the one listener that is stored. *)
Unload(m) ==
    [m EXCEPT
       !.listeners = IF m.stored THEN @ - 1 ELSE @,
       !.items = IF m.paneReady THEN RemoveAll(@, CleanupIds) ELSE @,
       !.live = IF m.paneReady THEN FALSE ELSE @,
       !.stored = FALSE]

MenuRest == UNCHANGED <<coreVars, boot, pui, kgm, don, pref>>

(* inScope: whether the name LitGapOverlay resolves where shutdown runs.
   startup loads overlay.js into an object of its own
   (bootstrap.js:229-232) and shutdown asks typeof LitGapOverlay in the
   scope of bootstrap.js (bootstrap.js:322); both answers are followed. *)
MenuInit ==
    /\ \E items \in LeftoverMenus, ready \in BOOLEAN, exists \in BOOLEAN,
          inScope \in BOOLEAN :
         menu = [pc |-> "load", items |-> items, before |-> items,
                 paneReady |-> ready,
                 menuExists |-> exists, inScope |-> inScope,
                 initialized |-> TRUE, listeners |-> 0, stored |-> FALSE,
                 timers |-> 0, live |-> FALSE, calls |-> 0, popups |-> 0,
                 shut |-> FALSE]
    /\ boot = NoData /\ pui = NoData /\ kgm = NoData /\ don = NoData
    /\ pref = NoData
    /\ CoreIdle

(* overlay.js:448 with 30-41: LitGapOverlay.init() as overlay.js is loaded *)
MenuOverlayInit ==
    /\ menu.pc = "load"
    /\ menu' = [AddMenuItem(menu) EXCEPT !.pc = "run"]
    /\ MenuRest

(* a further call of addMenuItem *)
MenuAddAgain ==
    /\ menu.pc = "run"
    /\ menu.calls < MaxCalls
    /\ menu' = [AddMenuItem(menu) EXCEPT !.calls = @ + 1]
    /\ MenuRest

(* overlay.js:56, 70: a retry timer fires *)
MenuTimerFires ==
    /\ menu.pc = "run"
    /\ menu.timers > 0
    /\ menu' = AddMenuItem([menu EXCEPT !.timers = @ - 1])
    /\ MenuRest

(* the Zotero pane becomes available *)
MenuPaneReady ==
    /\ menu.pc = "run"
    /\ ~menu.paneReady
    /\ menu' = [menu EXCEPT !.paneReady = TRUE]
    /\ MenuRest

(* the collection menu comes into the document *)
MenuAppears ==
    /\ menu.pc = "run"
    /\ ~menu.menuExists
    /\ menu' = [menu EXCEPT !.menuExists = TRUE]
    /\ MenuRest

(* overlay.js:78-83: popupshowing; every listener registered runs *)
MenuPopupShowing ==
    /\ menu.pc = "run"
    /\ menu.menuExists
    /\ menu.popups < MaxPopups
    /\ menu' = [menu EXCEPT
                  !.popups = @ + 1,
                  !.items = IF menu.listeners > 0
                            THEN InsertMenuItems(@) ELSE @,
                  !.live = IF menu.listeners > 0 THEN TRUE ELSE @]
    /\ MenuRest

(* bootstrap.js:318-328: shutdown *)
MenuShutdown ==
    /\ menu.pc = "run"
    /\ ~menu.shut
    /\ LET m == IF menu.initialized /\ menu.inScope THEN Unload(menu)
                ELSE menu
       IN  menu' = [m EXCEPT !.initialized = FALSE, !.shut = TRUE]
    /\ MenuRest

MenuNext ==
    \/ MenuOverlayInit
    \/ MenuAddAgain
    \/ MenuTimerFires
    \/ MenuPaneReady
    \/ MenuAppears
    \/ MenuPopupShowing
    \/ MenuShutdown

MenuSpec == MenuInit /\ [][MenuNext]_vars

LitGapElements(items) ==
    LET Ours(id) == InSeq(id, CleanupIds)
    IN  SelectSeq(items, Ours)

(* C32: once the plugin has been shut down after a successful startup, no
   popupshowing listener is left on the collection menu and the menu has no
   LitGap element, then and at any later time. *)
C32_ShutdownCleansMenu ==
    menu.shut =>
      /\ menu.listeners = 0
      /\ LitGapElements(menu.items) = <<>>

(* shut down, and the elements and the listener are still there *)
C32_SeenLeftBehind ==
    /\ menu.shut
    /\ ~menu.inScope
    /\ menu.listeners = 1
    /\ LitGapElements(menu.items) = InsertedIds

(* unload ran, and a retry timer put the elements back afterwards *)
C32_SeenReinserted ==
    /\ menu.shut
    /\ menu.inScope
    /\ menu.timers = 0
    /\ menu.calls = 0
    /\ menu.listeners = 1
    /\ LitGapElements(menu.items) = InsertedIds

(* C33: once _insertMenuItems has run, whatever calls of addMenuItem, timer
   firings and popupshowing events follow and whatever v1.x elements were
   in the menu before, the menu has exactly one of each LitGap element, in
   the order separator, Find Hidden Papers, Analyze Knowledge Gaps (KGM),
   Reset LitGap Preferences, behind the elements of others. *)
C33_InsertIdempotent ==
    menu.live =>
      /\ LitGapElements(menu.items) =
           <<"litgap-separator", "litgap-analyze", "litgap-kgm-menuitem",
             "litgap-reset-prefs">>
      /\ menu.items = <<"zotero-item">> \o LitGapElements(menu.items)

(* a second insertion and a popupshowing have left the menu as it was *)
C33_Witness ==
    /\ menu.live
    /\ menu.listeners = 3
    /\ menu.popups = 2
    /\ Len(menu.items) = 5

(* v1.x elements in the wrong order were replaced *)
C33_WitnessLeftover ==
    /\ menu.live
    /\ menu.calls = 0 /\ menu.timers = 0 /\ menu.popups = 0
    /\ menu.listeners = 1
    /\ ~menu.shut
    /\ menu.before =
         <<"zotero-item", "litgap-reset-prefs", "litgap-analyze">>
    /\ Len(menu.items) = 5

----------------------------------------------------------------------------
(* ProgressUI (progressUI.js:50-203): show, update, hide, showComplete and
   the auto-hide timers. Panels and timers are numbered as they are made;
   0 stands for null. clock counts the calls. *)

MaxUICalls == 5

(* progressUI.js:164-179: hide, on the state u *)
PuiHide(u) ==
    [u EXCEPT
       !.pending = IF u.hideTimer # 0
                   THEN { t \in @ : t.id # u.hideTimer } ELSE @,
       !.hideTimer = 0,
       !.attached = @ \ {u.panel},
       !.panel = 0]

(* progressUI.js:50-154: show, on the state u; doc is whether
   _getDocument() gives a document *)
PuiShow(u, doc) ==
    LET c == [u EXCEPT
                !.pending = IF u.hideTimer # 0
                            THEN { t \in @ : t.id # u.hideTimer } ELSE @,
                !.hideTimer = 0]
    IN  IF c.panel # 0 THEN [c EXCEPT !.shownAt = u.clock]
        ELSE IF ~doc THEN c
        ELSE [c EXCEPT !.panel = u.made + 1,
                       !.made = @ + 1,
                       !.attached = @ \cup {u.made + 1},
                       !.shownAt = u.clock]

(* progressUI.js:181-203: showComplete, on the state u *)
PuiShowComplete(u, doc) ==
    LET a == IF u.panel = 0 THEN PuiShow(u, doc) ELSE u
    IN  IF a.panel = 0 THEN a
        ELSE [a EXCEPT
                !.pending = @ \cup {[id |-> a.timersMade + 1,
                                     armedAt |-> u.clock]},
                !.hideTimer = a.timersMade + 1,
                !.timersMade = @ + 1]

PuiRest == UNCHANGED <<coreVars, boot, menu, kgm, don, pref>>

PuiInit ==
    /\ pui = [panel |-> 0, hideTimer |-> 0, attached |-> {}, pending |-> {},
              made |-> 0, timersMade |-> 0, clock |-> 0, shownAt |-> 0,
              staleRemoval |-> FALSE, last |-> "none"]
    /\ boot = NoData /\ menu = NoData /\ kgm = NoData /\ don = NoData
    /\ pref = NoData
    /\ CoreIdle

Tick(u, name) == [u EXCEPT !.clock = @ + 1, !.last = name]

PuiCallShow ==
    /\ pui.clock < MaxUICalls
    /\ \E doc \in BOOLEAN : pui' = PuiShow(Tick(pui, "show"), doc)
    /\ PuiRest

(* progressUI.js:143-162: update changes the texts of the panel only *)
PuiCallUpdate ==
    /\ pui.clock < MaxUICalls
    /\ pui' = Tick(pui, "update")
    /\ PuiRest

PuiCallHide ==
    /\ pui.clock < MaxUICalls
    /\ pui' = PuiHide(Tick(pui, "hide"))
    /\ PuiRest

PuiCallShowComplete ==
    /\ pui.clock < MaxUICalls
    /\ \E doc \in BOOLEAN :
         pui' = PuiShowComplete(Tick(pui, "showComplete"), doc)
    /\ PuiRest

(* progressUI.js:199: a timer armed by showComplete fires and calls hide *)
PuiTimerFires ==
    /\ \E t \in pui.pending :
         LET u == [pui EXCEPT !.pending = @ \ {t}, !.last = "timer"]
         IN  pui' = [PuiHide(u) EXCEPT
                       !.staleRemoval =
                          @ \/ (u.panel # 0 /\ t.armedAt < u.shownAt)]
    /\ PuiRest

PuiNext ==
    \/ PuiCallShow
    \/ PuiCallUpdate
    \/ PuiCallHide
    \/ PuiCallShowComplete
    \/ PuiTimerFires

PuiSpec == PuiInit /\ [][PuiNext]_vars

(* C34: whatever calls of show, update, showComplete and hide and whatever
   timer firings have happened, at most one progress panel is attached to
   the window, and no auto-hide timer has removed a panel on which show()
   was called after the showComplete() that armed the timer. *)
C34_OnePanelNoStaleHide ==
    /\ Cardinality(pui.attached) <= 1
    /\ ~pui.staleRemoval

(* the first half alone: at most one panel, and the panel attached is the
   one ProgressUI refers to *)
C34_SeenOnePanelKept ==
    /\ pui.made = 2
    /\ pui.attached = {2}
    /\ pui.panel = 2

----------------------------------------------------------------------------
(* KGMMain.run (part_003:50-114) with its steps, over up to MaxKgmRuns
   runs one after the other. What the user answers and what the file
   system and the AI provider do are inputs. kgm.ui is the state of
   ProgressUI; dialogs are recorded by name in the order shown. *)

MaxKgmRuns == 2

(* Zotero.Prefs is not part of the repository. saveToPrefs writes the key
   with a third argument true (part_000:131), createFromPrefs and
   clearApiKey name it without (part_000:110, 143): apart says whether
   the third argument makes it another preference. *)
NoPrefs == [provider |-> FALSE, keyRead |-> FALSE, keyOther |-> FALSE]

(* part_000:129-135: saveToPrefs *)
SaveToPrefs(prefs, apart) ==
    IF apart THEN [prefs EXCEPT !.provider = TRUE, !.keyOther = TRUE]
    ELSE [prefs EXCEPT !.provider = TRUE, !.keyRead = TRUE]

(* the key is left as it is *)
ClearApiKeyNothing(prefs) == prefs

(* part_000:141-148: clearApiKey *)
ClearApiKey(prefs) == [prefs EXCEPT !.keyRead = FALSE]

(* part_000:107-120: createFromPrefs gives a client *)
CreateFromPrefs(prefs) == prefs.provider /\ prefs.keyRead

(* what LitGapMain.run resolves to: main.js:44, 52, 109, 151-160, 175 and
   parser.js:324, 336, 428, 443, 449, 462 return true or false *)
F1Results == {[kind |-> "boolean", v |-> TRUE], [kind |-> "boolean", v |-> FALSE]}

(* part_003:237: !f1Result || !f1Result.success; a boolean has no success *)
F1Success(f) ==
    IF f.kind = "object" THEN f.success
    ELSE FALSE

(* every error is reported by the outer catch *)
OuterCatchAlways(handled) == IF handled THEN 1 ELSE 1

(* part_003:96-108: the dialogs the outer catch of run shows *)
OuterCatch(handled) == IF handled THEN 0 ELSE 1

KgmUi ==
    [panel |-> 0, hideTimer |-> 0, attached |-> {}, pending |-> {},
     made |-> 0, timersMade |-> 0, clock |-> 0, shownAt |-> 0,
     staleRemoval |-> FALSE, last |-> "none"]

KgmRest == UNCHANGED <<coreVars, boot, menu, pui, don, pref>>

KgmInit ==
    /\ \E apart \in BOOLEAN :
         kgm = [pc |-> "idle", prefs |-> NoPrefs, apart |-> apart,
                ui |-> KgmUi, dialogs |-> <<>>, failures |-> 0,
                errorDialogs |-> 0, aiRequests |-> 0, f1 |-> "none",
                missing |-> "none", saved |-> FALSE,
                lastError |-> "none", prevError |-> "none", runsDone |-> 0]
    /\ boot = NoData /\ menu = NoData /\ pui = NoData /\ don = NoData
    /\ pref = NoData
    /\ CoreIdle

(* a dialog that reports a failure *)
Fail(k, dialog) ==
    [k EXCEPT !.dialogs = Append(@, dialog), !.failures = @ + 1,
              !.errorDialogs = @ + 1]

Shown(k, dialog) == [k EXCEPT !.dialogs = Append(@, dialog)]

(* part_003:109-113: the finally block of run, and run is left *)
Finish(k) ==
    [k EXCEPT !.ui = PuiHide(@), !.pc = "done", !.runsDone = @ + 1]

(* part_003:96-113: the outer catch for an error of a step, then finally *)
Caught(k, handled) ==
    Finish([k EXCEPT
              !.errorDialogs = @ + OuterCatch(handled),
              !.dialogs = IF OuterCatch(handled) = 1
                          THEN Append(@, "unexpected") ELSE @])

(* part_003:50-71, 128-161: the pre-check and the choice of the source *)
KgmBegin ==
    /\ kgm.pc \in {"idle", "done"}
    /\ kgm.runsDone < MaxKgmRuns
    /\ \E library \in {"papers", "empty", "throws"},
          choice \in {"load", "feature1", "cancel"} :
         LET k == [kgm EXCEPT !.dialogs = <<>>, !.failures = 0,
                              !.errorDialogs = 0, !.aiRequests = 0,
                              !.f1 = "none", !.missing = "none",
                              !.saved = FALSE,
                              !.prevError = kgm.lastError,
                              !.lastError = "none"]
         IN  kgm' =
               CASE library = "throws" ->
                      Caught([k EXCEPT !.failures = 1], FALSE)
                 [] library = "empty" -> Finish(Fail(k, "noPapers"))
                 [] library = "papers" /\ choice = "cancel" ->
                      Finish(Shown(k, "source"))
                 [] library = "papers" /\ choice = "load" ->
                      [Shown(k, "source") EXCEPT !.pc = "loading"]
                 [] OTHER ->
                      [Shown(k, "source") EXCEPT
                         !.pc = "feature1",
                         !.ui = PuiShow(@, TRUE)]
    /\ KgmRest

(* part_003:168-204: _loadReportFile after the file picker *)
KgmLoadReport ==
    /\ kgm.pc = "loading"
    /\ \E outcome \in {"cancel", "unreadable", "empty", "papers"} :
         kgm' =
           CASE outcome = "cancel" -> Finish(kgm)
             [] outcome = "unreadable" -> Finish(Fail(kgm, "readFailed"))
             [] outcome = "empty" -> Finish(Fail(kgm, "nothingParsed"))
             [] OTHER -> [kgm EXCEPT !.pc = "client", !.missing = "loaded"]
    /\ KgmRest

(* part_003:224-309: _runFeature1AndContinue after LitGapMain.run has
   resolved to f; a run that resolves to false for a failure has shown
   its own dialog (main.js:171-175), one that was cancelled has shown none *)
KgmFeature1 ==
    /\ kgm.pc = "feature1"
    /\ \E f \in F1Results, saveResult \in {0, 1, 2}, saved \in BOOLEAN,
          cancelled \in BOOLEAN :
         LET k == [kgm EXCEPT !.ui = PuiHide(@),
                              !.f1 = IF f.v THEN "succeeded" ELSE "failed"]
             r == IF f.v \/ cancelled THEN k ELSE Fail(k, "feature1Error")
         IN  kgm' =
               IF ~F1Success(f) THEN Finish(r)
               ELSE IF saveResult = 2 \/ ~saved
               THEN Finish(Shown(r, "threeOption"))
               ELSE IF saveResult = 1
               THEN Finish(Shown(Shown(r, "threeOption"), "tip"))
               ELSE [Shown(r, "threeOption") EXCEPT
                       !.pc = "client", !.missing = "parsed"]
    /\ KgmRest

(* part_003:363-571: _ensureAIClient with the setup dialog and its test of
   the connection *)
KgmEnsureClient ==
    /\ kgm.pc = "client"
    /\ IF CreateFromPrefs(kgm.prefs)
       THEN kgm' = [kgm EXCEPT !.pc = "topic"]
       ELSE \E outcome \in {"cancel", "connected", "refused"} :
              LET k == Shown(kgm, "setup")
                  t == [k EXCEPT !.aiRequests = @ + 1,
                                 !.ui = PuiHide(PuiShow(@, TRUE))]
              IN  kgm' =
                    CASE outcome = "cancel" -> Finish(k)
                      [] outcome = "refused" ->
                           Finish(Fail(t, "connectionFailed"))
                      [] OTHER ->
                           [Shown(t, "connected") EXCEPT
                              !.pc = "topic",
                              !.prefs = SaveToPrefs(@, kgm.apart)]
    /\ KgmRest

(* part_003:584-668: _confirmTopic *)
KgmConfirmTopic ==
    /\ kgm.pc = "topic"
    /\ \E detected \in BOOLEAN, accepted \in BOOLEAN :
         LET t == [kgm EXCEPT !.aiRequests = @ + 1,
                              !.ui = PuiHide(PuiShow(@, TRUE))]
             k == IF detected THEN Shown(t, "topic")
                  ELSE Shown(Fail(t, "notDetected"), "manualTopic")
         IN  kgm' = IF accepted THEN [k EXCEPT !.pc = "analysis"]
                    ELSE Finish(k)
    /\ KgmRest

(* part_003:683-740: _runKGMAnalysis; its catch shows a dialog and throws
   _KGMHandledError to run *)
KgmAnalysis ==
    /\ kgm.pc = "analysis"
    /\ \E outcome \in {"ok", "INVALID_KEY", "RATE_LIMIT", "NETWORK_ERROR",
                       "other"} :
         LET t == [kgm EXCEPT !.aiRequests = @ + 1,
                              !.ui = PuiShow(@, TRUE)]
         IN  kgm' =
               IF outcome = "ok" THEN [t EXCEPT !.pc = "save"]
               ELSE Caught(
                      [Fail(t, outcome) EXCEPT
                         !.lastError = outcome,
                         !.prefs = IF outcome = "INVALID_KEY"
                                   THEN ClearApiKey(@) ELSE @],
                      TRUE)
    /\ KgmRest

(* part_003:755-829: _saveReports, then the finally block of run *)
KgmSaveReports ==
    /\ kgm.pc = "save"
    /\ \E outcome \in {"generateThrows", "cancel", "writeFails", "saved"} :
         kgm' =
           CASE outcome = "generateThrows" ->
                  Caught([kgm EXCEPT !.failures = @ + 1], FALSE)
             [] outcome = "cancel" -> Finish(kgm)
             [] outcome = "writeFails" -> Finish(Fail(kgm, "saveFailed"))
             [] OTHER ->
                  Finish([kgm EXCEPT !.saved = TRUE,
                                     !.ui = PuiShowComplete(@, TRUE)])
    /\ KgmRest

KgmNext ==
    \/ KgmBegin
    \/ KgmLoadReport
    \/ KgmFeature1
    \/ KgmEnsureClient
    \/ KgmConfirmTopic
    \/ KgmAnalysis
    \/ KgmSaveReports

KgmSpec == KgmInit /\ [][KgmNext]_vars

(* C35: after the KGM reports are saved successfully, the completion panel
   shown by showComplete stays visible until its auto-hide timer fires:
   when run has returned after a successful save, the panel is still
   attached and its timer is still pending. *)
C35_CompletionPanelStays ==
    (kgm.pc = "done" /\ kgm.saved) =>
        /\ kgm.ui.panel # 0
        /\ kgm.ui.pending # {}

(* a run has returned after a successful save; the panel is gone and no
   timer is pending *)
C35_SeenPanelRemoved ==
    /\ kgm.pc = "done"
    /\ kgm.saved
    /\ kgm.ui.panel = 0
    /\ kgm.ui.attached = {}
    /\ kgm.ui.pending = {}
    /\ kgm.ui.timersMade = 1

(* C36: when 'Run Find Hidden Papers' was chosen and Feature 1 completed
   successfully, the three-option dialog has been presented by the time
   the step is over. *)
C36_ThreeOptionShown ==
    (kgm.f1 = "succeeded") =>
        \E n \in 1..Len(kgm.dialogs) : kgm.dialogs[n] = "threeOption"

(* Feature 1 succeeded and the run is over with only the source dialog
   shown and no missing papers handed on *)
C36_SeenStoppedAfterFeature1 ==
    /\ kgm.f1 = "succeeded"
    /\ kgm.pc = "done"
    /\ kgm.dialogs = <<"source">>
    /\ kgm.missing = "none"

(* C37: in a KGM run, the number of error dialogs shown is the number of
   failures that have happened: one dialog for each failure, whether the
   step reported it or the outer catch did. *)
C37_OneDialogPerFailure ==
    kgm.errorDialogs = kgm.failures

(* an analysis failed in a run with no other failure: one dialog, shown by
   the step *)
C37_WitnessHandled ==
    /\ kgm.pc = "done"
    /\ kgm.lastError = "RATE_LIMIT"
    /\ kgm.failures = 1
    /\ kgm.errorDialogs = 1
    /\ kgm.dialogs[Len(kgm.dialogs)] = "RATE_LIMIT"

(* an unexpected error of report generation: one dialog, shown by the
   outer catch *)
C37_WitnessUnexpected ==
    /\ kgm.pc = "done"
    /\ kgm.failures = 1
    /\ kgm.errorDialogs = 1
    /\ Len(kgm.dialogs) > 3
    /\ kgm.dialogs[Len(kgm.dialogs)] = "unexpected"

(* C38: when a KGM analysis has failed with INVALID_KEY, createFromPrefs
   gives no client, and in the run after it no AI request is sent before
   the AI setup dialog has been shown. *)
C38_InvalidKeyForcesSetup ==
    /\ (kgm.pc = "done" /\ kgm.lastError = "INVALID_KEY") =>
           ~CreateFromPrefs(kgm.prefs)
    /\ (kgm.prevError = "INVALID_KEY" /\ kgm.aiRequests > 0) =>
           \E n \in 1..Len(kgm.dialogs) : kgm.dialogs[n] = "setup"

(* the run after an INVALID_KEY failure has shown the setup dialog and has
   sent AI requests after it; the third argument of Zotero.Prefs.set is
   not a preference of its own here *)
C38_Witness ==
    /\ ~kgm.apart
    /\ kgm.prevError = "INVALID_KEY"
    /\ kgm.pc = "analysis"
    /\ kgm.aiRequests = 2
    /\ kgm.dialogs = <<"source", "setup", "connected", "topic">>

----------------------------------------------------------------------------
(* The donation prompt of LitGapMain.run (parser.js:430-449, 512-615) over
   a sequence of runs and of waits. Time is counted in ticks of 2^20 ms,
   so that Date.now() fits and the 32 bits of an integer preference are
   IntPrefSpan ticks. *)

MaxUses == 20
MaxWaits == 3

(* parser.js:543: daysSince < 30, in ticks: 30 days are 2471.9 ticks *)
ThirtyDays == 2472

(* parser.js:553: the 10th use and every 10 uses after it *)
PromptEvery == 10

(* parser.js:600: Date.now() is stored as an integer preference, which
   holds 32 bits: 2^32 ms in ticks *)
IntPrefSpan == 4096

(* Date.now() at the first run: two days of September and October 2026 *)
StartTicks == {1706000, 1709000}

(* a wait of a little over a day, and one of a little over 31 days *)
Waits == {83, 2560}

(* Zotero.Prefs is not part of the repository: what its set does with a
   number that does not fit an integer preference *)
IntPrefModes == {"wide", "wraps", "throws"}

(* parser.js:600: Zotero.Prefs.set(..., Date.now()), then a later get *)
StoreInt(old, v, mode) ==
    CASE mode = "wide" -> v
      [] mode = "wraps" ->
           ((v + (IntPrefSpan \div 2)) % IntPrefSpan) - (IntPrefSpan \div 2)
      [] OTHER -> old

(* parser.js:529-560: _checkDonationPrompt shows the prompt *)
ShouldPrompt(count, donated, remindLater, t) ==
    /\ ~donated
    /\ ~(remindLater > 0 /\ t - remindLater < ThirtyDays)
    /\ \/ count = PromptEvery
       \/ (count > PromptEvery /\ count % PromptEvery = 0)
       \/ (remindLater > 0 /\ ~donated)

DonRest == UNCHANGED <<coreVars, boot, menu, pui, kgm, pref>>

NoPrompt ==
    [shown |-> FALSE, afterSave |-> FALSE, uses |-> 0,
     saidDonated |-> FALSE, sinceRemind |-> -1, answer |-> "none"]

DonInit ==
    /\ \E mode \in IntPrefModes, t \in StartTicks :
         don = [count |-> 0, donated |-> FALSE, remindLater |-> 0,
                intPrefs |-> mode, clock |-> t, waits |-> 0,
                remindAt |-> -1, last |-> "none", prompt |-> NoPrompt]
    /\ boot = NoData /\ menu = NoData /\ pui = NoData /\ kgm = NoData
    /\ pref = NoData
    /\ CoreIdle

(* parser.js:428-449, 512-523, 529-615: the end of a run that saved its
   reports: the use is counted and the prompt is considered *)
DonRunSaved ==
    /\ don.count < MaxUses
    /\ \E answer \in {"Support Now", "Remind Later", "Already Donated"} :
         LET count == don.count + 1
             asks == ShouldPrompt(count, don.donated, don.remindLater,
                                  don.clock)
         IN  don' =
               [don EXCEPT
                  !.count = count,
                  !.last = "saved",
                  !.prompt =
                      IF asks
                      THEN [shown |-> TRUE, afterSave |-> TRUE,
                            uses |-> count, saidDonated |-> don.donated,
                            sinceRemind |->
                                IF don.remindAt < 0 THEN -1
                                ELSE don.clock - don.remindAt,
                            answer |-> answer]
                      ELSE NoPrompt,
                  !.donated = @ \/ (asks /\ answer = "Already Donated"),
                  !.remindLater =
                      IF asks /\ answer = "Remind Later"
                      THEN StoreInt(@, don.clock, don.intPrefs) ELSE @,
                  !.remindAt =
                      IF asks /\ answer = "Remind Later"
                      THEN don.clock ELSE @]
    /\ DonRest

(* parser.js:324, 336, 443-449, 451-463: a run that ends without saved
   reports neither counts nor prompts *)
DonRunUnsaved ==
    /\ don.last # "unsaved"
    /\ don' = [don EXCEPT !.last = "unsaved", !.prompt = NoPrompt]
    /\ DonRest

(* time passes between two runs *)
DonWait ==
    /\ don.waits < MaxWaits
    /\ \E w \in Waits :
         don' = [don EXCEPT !.clock = @ + w, !.waits = @ + 1,
                            !.last = "wait", !.prompt = NoPrompt]
    /\ DonRest

DonNext ==
    \/ DonRunSaved
    \/ DonRunUnsaved
    \/ DonWait

DonSpec == DonInit /\ [][DonNext]_vars

(* C39: a donation prompt is shown only at the end of a run that saved
   its reports, not before the 10th such use, not after the user chose
   'Already Donated', and not within 30 days after the user chose
   'Remind Later'. *)
C39_DonationPromptTimes ==
    don.prompt.shown =>
        /\ don.prompt.afterSave
        /\ don.prompt.uses >= PromptEvery
        /\ ~don.prompt.saidDonated
        /\ ~(don.prompt.sinceRemind >= 0
             /\ don.prompt.sinceRemind < ThirtyDays)

(* the first three parts hold however integer preferences behave *)
C39_SavedTenthNotDonated ==
    don.prompt.shown =>
        /\ don.prompt.afterSave
        /\ don.prompt.uses >= PromptEvery
        /\ ~don.prompt.saidDonated

(* all four parts hold where the time is stored as it is *)
C39_WideHolds ==
    don.intPrefs = "wide" => C39_DonationPromptTimes

(* the prompt comes back at the very next saved run after 'Remind Later' *)
C39_SeenPromptAtOnce ==
    /\ don.prompt.shown
    /\ don.prompt.uses = PromptEvery + 1
    /\ don.prompt.sinceRemind = 0

----------------------------------------------------------------------------
(* The 'Don't ask me again' preference of analyzeCollection
   (overlay.js:306-337) and resetPreferences (overlay.js:369-406).
   pref.skip holds the collections whose skipConfirm preference is true;
   pref.fresh holds those for which the box was not checked and confirmed
   since the last confirmed reset. *)

PrefCollections == {1, 2, 12}

(* Zotero.Prefs is not part of the repository: getAll() gives the names
   as get, set and clear take them, or gives them with the branch they
   are stored under in front, or is no function of Zotero.Prefs *)
GetAllModes == {"relative", "absolute", "missing"}

(* overlay.js:381-392: the preferences left by the loop over getAll();
   with "missing" the call throws and the catch at 401 only logs *)
ClearSkipConfirm(skip, mode) ==
    IF mode = "relative" THEN {} ELSE skip

NoPrefOp ==
    [op |-> "none", c |-> 0, reached |-> FALSE, asked |-> FALSE,
     confirmed |-> FALSE, checked |-> FALSE, wasFresh |-> FALSE,
     stored |-> FALSE]

PrefRest == UNCHANGED <<coreVars, boot, menu, pui, kgm, don>>

PrefInit ==
    /\ \E mode \in GetAllModes :
         pref = [skip |-> {}, fresh |-> PrefCollections, getAll |-> mode,
                 last |-> NoPrefOp]
    /\ boot = NoData /\ menu = NoData /\ pui = NoData /\ kgm = NoData
    /\ don = NoData
    /\ CoreIdle

(* overlay.js:215-337: analyzeCollection up to the confirmation; withDOI
   says the collection has a paper with a DOI (overlay.js:246-268) *)
PrefAnalyze ==
    /\ \E c \in PrefCollections, withDOI \in BOOLEAN,
          confirmed \in BOOLEAN, checked \in BOOLEAN :
         LET skipConfirm == c \in pref.skip
             asked == withDOI /\ ~skipConfirm
             stores == asked /\ confirmed /\ checked
         IN  pref' =
               [pref EXCEPT
                  !.skip = IF stores THEN @ \cup {c} ELSE @,
                  !.fresh = IF stores THEN @ \ {c} ELSE @,
                  !.last = [op |-> "analyze", c |-> c, reached |-> withDOI,
                            asked |-> asked,
                            confirmed |-> asked /\ confirmed,
                            checked |-> asked /\ checked,
                            wasFresh |-> c \in pref.fresh,
                            stored |-> stores]]
    /\ PrefRest

(* overlay.js:369-406: resetPreferences *)
PrefReset ==
    /\ \E confirmed \in BOOLEAN :
         pref' =
           [pref EXCEPT
              !.skip = IF confirmed THEN ClearSkipConfirm(@, pref.getAll)
                       ELSE @,
              !.fresh = IF confirmed THEN PrefCollections ELSE @,
              !.last = [NoPrefOp EXCEPT !.op = "reset",
                                        !.confirmed = confirmed]]
    /\ PrefRest

PrefNext ==
    \/ PrefAnalyze
    \/ PrefReset

PrefSpec == PrefInit /\ [][PrefNext]_vars

(* C40: an analysis that reaches the confirmation step shows the dialog
   exactly when its collection has not been confirmed with 'Don't ask me
   again' checked since the last confirmed 'Reset LitGap Preferences',
   and it stores the preference only when the user confirmed with the box
   checked. *)
C40_SkipConfirmPerCollection ==
    (pref.last.op = "analyze" /\ pref.last.reached) =>
        /\ pref.last.asked <=> pref.last.wasFresh
        /\ pref.last.stored => (pref.last.confirmed /\ pref.last.checked)

(* the parts of the claim that do not involve the reset *)
C40_WithoutReset ==
    (pref.last.op = "analyze" /\ pref.last.reached) =>
        /\ ~pref.last.wasFresh => ~pref.last.asked
        /\ pref.last.c \notin pref.skip => pref.last.asked
        /\ pref.last.stored => (pref.last.confirmed /\ pref.last.checked)

(* all of it holds where getAll() gives the names as set took them *)
C40_RelativeHolds ==
    pref.getAll = "relative" => C40_SkipConfirmPerCollection

(* after a confirmed reset a collection is analysed without the dialog *)
C40_SeenNoDialogAfterReset ==
    /\ pref.last.op = "analyze"
    /\ pref.last.reached
    /\ pref.last.wasFresh
    /\ ~pref.last.asked
    /\ pref.fresh = PrefCollections

====
